---- MODULE Spec2Model ----
(***************************************************************************)
(* A model of doi2bibtex: the hook registry and module loader             *)
(* (hooks.py, modules/base.py, loader.py), the identifier classifiers     *)
(* (identify.py), identifier preprocessing and BibTeX post-processing     *)
(* (process.py) and the resolution pipeline resolve_identifier            *)
(* (resolve.py).                                                           *)
(*                                                                         *)
(* Strings on which the code computes character by character              *)
(* (identifiers) are sequences of one-character strings.                   *)
(***************************************************************************)
EXTENDS Integers, Sequences, FiniteSets, TLC

(***************************************************************************)
(* Characters                                                              *)
(***************************************************************************)
Digits == {"0", "1", "2", "3", "4", "5", "6", "7", "8", "9"}

LowerLetters ==
    {"a", "b", "c", "d", "e", "f", "g", "h", "i", "j", "k", "l", "m",
     "n", "o", "p", "q", "r", "s", "t", "u", "v", "w", "x", "y", "z"}

UpperLetters ==
    {"A", "B", "C", "D", "E", "F", "G", "H", "I", "J", "K", "L", "M",
     "N", "O", "P", "Q", "R", "S", "T", "U", "V", "W", "X", "Y", "Z"}

\* The printable ASCII characters 0x21..0x7E that are neither letters
\* nor digits (all but the grave accent, which no input of the model uses).
Punctuation ==
    {"!", "\"", "#", "$", "%", "&", "'", "(", ")", "*", "+", ",", "-",
     ".", "/", ":", ";", "<", "=", ">", "?", "@", "[", "\\", "]", "^",
     "_", "{", "|", "}", "~"}

\* [\x21-\x7E]
Printable == Digits \cup LowerLetters \cup UpperLetters \cup Punctuation

\* Characters outside 0x21..0x7E that occur in the inputs of the model:
\* the space, the newline and the tab.
Whitespace == {" ", "\n", "\t"}

\* \w restricted to ASCII
WordChars == Digits \cup LowerLetters \cup UpperLetters \cup {"_"}

\* "." of a regular expression (every character but the newline)
AnyChar == (Printable \cup Whitespace) \ {"\n"}

\* \S and [^\s]
NonSpace == Printable

\* str.lower() on one character
LowerChar(c) ==
    CASE c = "A" -> "a" [] c = "B" -> "b" [] c = "C" -> "c" [] c = "D" -> "d"
      [] c = "E" -> "e" [] c = "F" -> "f" [] c = "G" -> "g" [] c = "H" -> "h"
      [] c = "I" -> "i" [] c = "J" -> "j" [] c = "K" -> "k" [] c = "L" -> "l"
      [] c = "M" -> "m" [] c = "N" -> "n" [] c = "O" -> "o" [] c = "P" -> "p"
      [] c = "Q" -> "q" [] c = "R" -> "r" [] c = "S" -> "s" [] c = "T" -> "t"
      [] c = "U" -> "u" [] c = "V" -> "v" [] c = "W" -> "w" [] c = "X" -> "x"
      [] c = "Y" -> "y" [] c = "Z" -> "z" [] OTHER -> c

\* str.lower()
Lower(s) == [i \in 1..Len(s) |-> LowerChar(s[i])]

\* s[n:]
DropFirst(s, n) == IF n >= Len(s) THEN <<>> ELSE SubSeq(s, n + 1, Len(s))

\* s.startswith(p)
StartsWith(s, p) == Len(s) >= Len(p) /\ SubSeq(s, 1, Len(p)) = p

\* The positions at which p occurs in s
Occurrences(s, p) ==
    {i \in 1..(Len(s) - Len(p) + 1) : SubSeq(s, i, i + Len(p) - 1) = p}

\* p in s
Contains(s, p) == Occurrences(s, p) # {}

SetMin(S) == CHOOSE x \in S : \A y \in S : x <= y

\* The largest element of a set of naturals, 0 for the empty set
SetMax(S) == IF S = {} THEN 0 ELSE CHOOSE x \in S : \A y \in S : y <= x

\* [c for c in s if c in keep]
RECURSIVE Filter(_, _)
Filter(s, keep) ==
    IF s = <<>> THEN <<>>
    ELSE IF Head(s) \in keep THEN <<Head(s)>> \o Filter(Tail(s), keep)
    ELSE Filter(Tail(s), keep)

(***************************************************************************)
(* Regular expressions, as far as the classifiers use them: a pattern is a *)
(* sequence of atoms "between lo and hi characters of set", anchored at    *)
(* both ends (re.match with ^...$); an optional group is written as        *)
(* alternative patterns.  Unbounded is the hi of + and *.                  *)
(***************************************************************************)
Unbounded == 0 - 1

Atom(set, lo, hi) == [set |-> set, lo |-> lo, hi |-> hi]

One(c) == Atom({c}, 1, 1)

RECURSIVE MatchFrom(_, _, _, _)
MatchFrom(atoms, i, s, p) ==
    IF i > Len(atoms) THEN p = Len(s) + 1
    ELSE LET a    == atoms[i]
             left == Len(s) - p + 1
             top  == IF a.hi = Unbounded \/ a.hi > left THEN left ELSE a.hi
         IN  \E k \in a.lo..top :
                /\ \A j \in p..(p + k - 1) : s[j] \in a.set
                /\ MatchFrom(atoms, i + 1, s, p + k)

FullMatch(atoms, s) == MatchFrom(atoms, 1, s, 1)

(***************************************************************************)
(* identify.py: the classifiers                                            *)
(***************************************************************************)
Lit(s) == [i \in 1..Len(s) |-> One(s[i])]

\* The five DOI patterns of is_doi.  The dot after "10" is not escaped in
\* the source and matches any character.
DoiPatterns ==
    << \* ^10.\d{4,9}/[-.;()/:\w]+$
       <<One("1"), One("0"), Atom(AnyChar, 1, 1), Atom(Digits, 4, 9), One("/"),
         Atom(WordChars \cup {"-", ".", ";", "(", ")", "/", ":"}, 1, Unbounded)>>,
       \* ^10.1002/[^\s]+$
       <<One("1"), One("0"), Atom(AnyChar, 1, 1)>>
           \o Lit(<<"1", "0", "0", "2", "/">>)
           \o <<Atom(NonSpace, 1, Unbounded)>>,
       \* ^10.\d{4}/\d+-\d+X?(\d+)\d+<[\d\w]+:[\d\w]*>\d+.\d+.\w+;\d$
       <<One("1"), One("0"), Atom(AnyChar, 1, 1), Atom(Digits, 4, 4), One("/"),
         Atom(Digits, 1, Unbounded), One("-"), Atom(Digits, 1, Unbounded),
         Atom({"X"}, 0, 1), Atom(Digits, 1, Unbounded),
         Atom(Digits, 1, Unbounded), One("<"),
         Atom(WordChars, 1, Unbounded), One(":"),
         Atom(WordChars, 0, Unbounded), One(">"),
         Atom(Digits, 1, Unbounded), Atom(AnyChar, 1, 1),
         Atom(Digits, 1, Unbounded), Atom(AnyChar, 1, 1),
         Atom(WordChars, 1, Unbounded), One(";"), Atom(Digits, 1, 1)>>,
       \* ^10.1021/\w\w\d+$
       <<One("1"), One("0"), Atom(AnyChar, 1, 1)>>
           \o Lit(<<"1", "0", "2", "1", "/">>)
           \o <<Atom(WordChars, 2, 2), Atom(Digits, 1, Unbounded)>>,
       \* ^10.1207/[\w\d]+\&\d+_\d+$
       <<One("1"), One("0"), Atom(AnyChar, 1, 1)>>
           \o Lit(<<"1", "2", "0", "7", "/">>)
           \o <<Atom(WordChars, 1, Unbounded), One("&"),
                Atom(Digits, 1, Unbounded), One("_"),
                Atom(Digits, 1, Unbounded)>> >>

is_doi(identifier) ==
    \E i \in 1..Len(DoiPatterns) : FullMatch(DoiPatterns[i], identifier)

\* (v\d+)? as the two alternatives "absent" and "present"
VersionSuffixes == { <<>>, <<One("v"), Atom(Digits, 1, Unbounded)>> }

\* The patterns of is_arxiv_id, with the dot of the new format matching
\* any character, as in the source:
\*   ^\d{4}.\d{4,5}(v\d+)?$   and   ^[a-z\-]+(\.[A-Z]{2})?\/\d{7}(v\d+)?$
ArxivPatterns ==
    { <<Atom(Digits, 4, 4), Atom(AnyChar, 1, 1), Atom(Digits, 4, 5)>> \o v :
        v \in VersionSuffixes }
    \cup
    { <<Atom(LowerLetters \cup {"-"}, 1, Unbounded)>> \o sub
        \o <<One("/"), Atom(Digits, 7, 7)>> \o v :
        sub \in { <<>>, <<One("."), Atom(UpperLetters, 2, 2)>> },
        v \in VersionSuffixes }

is_arxiv_id(identifier) ==
    \E pat \in ArxivPatterns : FullMatch(pat, identifier)

\* ^(\d{4})([\w\.\&]{5})([\w\.]{4})(\S)([\d\.]{4})([A-Z])$
AdsPattern ==
    <<Atom(Digits, 4, 4), Atom(WordChars \cup {".", "&"}, 5, 5),
      Atom(WordChars \cup {"."}, 4, 4), Atom(NonSpace, 1, 1),
      Atom(Digits \cup {"."}, 4, 4), Atom(UpperLetters, 1, 1)>>

is_ads_bibcode(identifier) == FullMatch(AdsPattern, identifier)

\* int(c) of a digit; the check character X counts 10
DigitValue(c) ==
    CASE c = "0" -> 0 [] c = "1" -> 1 [] c = "2" -> 2 [] c = "3" -> 3
      [] c = "4" -> 4 [] c = "5" -> 5 [] c = "6" -> 6 [] c = "7" -> 7
      [] c = "8" -> 8 [] c = "9" -> 9 [] OTHER -> 10

RECURSIVE WeightedSum(_, _, _)
WeightedSum(s, weight(_), i) ==
    IF i > Len(s) THEN 0
    ELSE weight(i) * DigitValue(s[i]) + WeightedSum(s, weight, i + 1)

\* isbnlib.canonical: keep the digits and X, and give up ('') unless 10 or
\* 13 characters are left with X, if any, in the last place of 10
IsbnCanonical(identifier) ==
    LET kept  == Filter(identifier, Digits \cup {"X", "x"})
        numb  == IF kept # <<>> /\ kept[Len(kept)] = "x"
                 THEN [kept EXCEPT ![Len(kept)] = "X"] ELSE kept
        xs    == {i \in 1..Len(numb) : numb[i] \in {"X", "x"}}
    IN  IF Len(numb) \notin {10, 13} THEN <<>>
        ELSE IF xs \notin { {}, {10} } THEN <<>>
        ELSE IF \A i \in 1..Len(numb) : numb[i] = "0" THEN <<>>
        ELSE numb

\* isbnlib.is_isbn10: the weighted sum 10*d1 + ... + 1*d10 is 0 modulo 11
is_isbn10(identifier) ==
    LET c == IsbnCanonical(identifier)
        w(i) == 11 - i
    IN  Len(c) = 10 /\ WeightedSum(c, w, 1) % 11 = 0

\* isbnlib.is_isbn13: prefix 978 or 979 and d1 + 3*d2 + d3 + ... is 0
\* modulo 10
is_isbn13(identifier) ==
    LET c == IsbnCanonical(identifier)
        w(i) == IF i % 2 = 1 THEN 1 ELSE 3
    IN  /\ Len(c) = 13
        /\ SubSeq(c, 1, 3) \in { <<"9", "7", "8">>, <<"9", "7", "9">> }
        /\ WeightedSum(c, w, 1) % 10 = 0

is_isbn(identifier) == is_isbn10(identifier) \/ is_isbn13(identifier)

(***************************************************************************)
(* process.py: preprocessing of the identifier                             *)
(***************************************************************************)
\* re.search(<optional prefixes> lit [seps] (.+)) and group(1): the rest of
\* s after the leftmost occurrence of lit (at the start of s when
\* anchored) that is followed by one character of seps, if seps is not
\* empty, and by at least one more character.  <<>> when there is no
\* match, <<rest>> otherwise.
GroupAfter(s, lit, seps, anchored) ==
    LET skip == Len(lit) + (IF seps = {} THEN 0 ELSE 1)
        hits == {i \in Occurrences(s, lit) :
                    /\ anchored => i = 1
                    /\ seps # {} => /\ i + Len(lit) <= Len(s)
                                    /\ s[i + Len(lit)] \in seps
                    /\ i + skip <= Len(s)}
    IN  IF hits = {} THEN <<>>
        ELSE <<DropFirst(s, SetMin(hits) + skip - 1)>>

S_arxiv == <<"a", "r", "x", "i", "v">>

S_arxiv_org_abs == <<"a", "r", "x", "i", "v", ".", "o", "r", "g", "/", "a", "b", "s", "/">>

S_doi_org_arxiv == <<"d", "o", "i", ".", "o", "r", "g", "/", "1", "0", ".", "4", "8", "5", "5", "0", "/", "a", "r", "x", "i", "v">>

S_doi_arxiv == <<"1", "0", ".", "4", "8", "5", "5", "0", "/", "a", "r", "x", "i", "v">>

S_doi_colon == <<"d", "o", "i", ":">>

S_DOI_colon == <<"D", "O", "I", ":">>

\* process.preprocess_arxiv_identifier: the identifier is lower-cased
\* first, and the first of the four patterns that matches gives the id
preprocess_arxiv_identifier(identifier) ==
    LET low == Lower(identifier)
        m1  == GroupAfter(low, S_arxiv_org_abs, {}, FALSE)
        m2  == GroupAfter(low, S_doi_org_arxiv, {".", ":"}, FALSE)
        m3  == GroupAfter(low, S_doi_arxiv, {".", ":"}, TRUE)
        m4  == GroupAfter(low, S_arxiv, {".", ":"}, TRUE)
    IN  IF m1 # <<>> THEN m1[1]
        ELSE IF m2 # <<>> THEN m2[1]
        ELSE IF m3 # <<>> THEN m3[1]
        ELSE IF m4 # <<>> THEN m4[1]
        ELSE low

\* process.preprocess_identifier
preprocess_identifier(identifier) ==
    LET clean == Filter(identifier, Printable)
    IN  IF StartsWith(clean, S_doi_colon) \/ StartsWith(clean, S_DOI_colon)
        THEN DropFirst(clean, 4)
        ELSE IF Contains(Lower(clean), S_arxiv)
        THEN preprocess_arxiv_identifier(clean)
        ELSE clean

(***************************************************************************)
(* The identifiers given to the model                                      *)
(***************************************************************************)
Id_doi == <<"1", "0", ".", "1", "2", "3", "4", "/", "x">>

Id_doi_prefixed == <<"d", "o", "i", ":", "1", "0", ".", "1", "2", "3", "4", "/", "x">>

Id_DOI_prefixed == <<"D", "O", "I", ":", "1", "0", ".", "1", "2", "3", "4", "/", "x">>

Id_Doi_prefixed == <<"D", "o", "i", ":", "1", "0", ".", "1", "2", "3", "4", "/", "x">>

Id_arxiv == <<"1", "3", "1", "2", ".", "6", "1", "1", "4">>

Id_arxiv_prefixed == <<"a", "r", "X", "i", "v", ":", "1", "3", "1", "2", ".", "6", "1", "1", "4">>

Id_arxiv_old == <<"h", "e", "p", "-", "t", "h", "/", "9", "9", "0", "1", "0", "0", "1">>

Id_arxiv_doi == <<"d", "o", "i", ":", "1", "0", ".", "4", "8", "5", "5", "0", "/", "a", "r", "X", "i", "v", ".", "1", "3", "1", "2", ".", "6", "1", "1", "4">>

Id_arxiv_spaced == <<" ", "1", "3", "1", "2", ".", "6", "1", "1", "4", "\n">>

Id_ads == <<"2", "0", "2", "3", "A", "p", "J", ".", ".", ".", "1", "2", "3", ".", ".", "4", "5", "6", "A">>

Id_isbn13 == <<"9", "7", "8", "0", "1", "3", "4", "6", "8", "5", "9", "9", "1">>

\* A valid ISBN-10 that also has the shape of a new-style arXiv id
Id_isbn10 == <<"0", "3", "0", "6", "4", "0", "6", "1", "5", "2">>

Id_unknown == <<"n", "o", "t", "-", "v", "a", "l", "i", "d">>

Id_arxiv_unmatched == <<"a", "r", "X", "i", "v", "-", "P", "a", "p", "e", "r">>

(***************************************************************************)
(* Text.  A string is a sequence of characters; a character outside ASCII  *)
(* is written as one element with a name, such as "<a-uml>", and a text    *)
(* that no operation looks into (a message, a host) as one element.        *)
(***************************************************************************)
\* str.upper() on one character
UpperChar(c) ==
    IF c \in LowerLetters
    THEN CHOOSE u \in UpperLetters : LowerChar(u) = c
    ELSE c

\* str.replace(old, new), old not empty
RECURSIVE Replace(_, _, _)
Replace(s, old, new) ==
    IF s = <<>> THEN <<>>
    ELSE IF StartsWith(s, old)
    THEN new \o Replace(DropFirst(s, Len(old)), old, new)
    ELSE <<Head(s)>> \o Replace(Tail(s), old, new)

\* The first position of s that holds a character of seps (Len(s) + 1 when
\* there is none)
FirstIn(s, seps) ==
    SetMin({i \in 1..Len(s) : s[i] \in seps} \cup {Len(s) + 1})

\* str.split() and the like: the maximal runs of characters outside seps
RECURSIVE Split(_, _)
Split(s, seps) ==
    IF s = <<>> THEN <<>>
    ELSE IF Head(s) \in seps THEN Split(Tail(s), seps)
    ELSE LET k == FirstIn(s, seps)
         IN  <<SubSeq(s, 1, k - 1)>> \o Split(DropFirst(s, k - 1), seps)

\* sep.join(parts)
RECURSIVE Join(_, _)
Join(parts, sep) ==
    IF parts = <<>> THEN <<>>
    ELSE IF Len(parts) = 1 THEN parts[1]
    ELSE parts[1] \o sep \o Join(Tail(parts), sep)

\* str.title() on one word
Title(w) ==
    [i \in 1..Len(w) |-> IF i = 1 THEN UpperChar(w[i]) ELSE LowerChar(w[i])]

\* s.strip()
RECURSIVE Strip(_)
Strip(s) ==
    IF s = <<>> THEN <<>>
    ELSE IF Head(s) \in Whitespace THEN Strip(Tail(s))
    ELSE IF s[Len(s)] \in Whitespace THEN Strip(SubSeq(s, 1, Len(s) - 1))
    ELSE s

(***************************************************************************)
(* utils.py                                                                *)
(***************************************************************************)
\* The characters urllib.parse.quote(s, safe="") leaves as they are
Unreserved == Digits \cup LowerLetters \cup UpperLetters \cup {"_", ".", "-", "~"}

\* The two hexadecimal digits of the ASCII code of a reserved character
HexCode(c) ==
    CASE c = "/" -> <<"2", "F">> [] c = ":" -> <<"3", "A">> [] c = ";" -> <<"3", "B">>
      [] c = "(" -> <<"2", "8">> [] c = ")" -> <<"2", "9">> [] c = "<" -> <<"3", "C">>
      [] c = ">" -> <<"3", "E">> [] c = "&" -> <<"2", "6">> [] c = " " -> <<"2", "0">>
      [] c = "%" -> <<"2", "5">> [] c = "?" -> <<"3", "F">> [] c = "=" -> <<"3", "D">>
      [] c = "#" -> <<"2", "3">> [] c = "+" -> <<"2", "B">> [] c = "," -> <<"2", "C">>
      [] c = "@" -> <<"4", "0">> [] c = "[" -> <<"5", "B">> [] c = "]" -> <<"5", "D">>

\* urllib.parse.quote(s, safe="")
RECURSIVE Quote(_)
Quote(s) ==
    IF s = <<>> THEN <<>>
    ELSE (IF Head(s) \in Unreserved THEN <<Head(s)>>
          ELSE <<"%">> \o HexCode(Head(s))) \o Quote(Tail(s))

\* utils.doi_to_url
doi_to_url(doi) == <<"h", "t", "t", "p", "s", ":", "/", "/", "d", "o", "i", ".", "o", "r", "g", "/">> \o Quote(doi)

\* utils.latex_to_unicode (pylatexenc, math mode verbatim), for the LaTeX
\* that occurs in the records of the model: an accent macro becomes the
\* accented character, an escaped ampersand the ampersand, and the braces
\* of a group are dropped
latex_to_unicode(text) ==
    LET accents == Replace(Replace(text, <<"{", "\\", "\"", "a", "}">>, <<"<a-uml>">>), <<"{", "\\", "\"", "u", "}">>, <<"<u-uml>">>)
        amp     == Replace(accents, <<"\\", "&">>, <<"&">>)
    IN  Filter(amp, (AnyChar \cup {"<a-uml>", "<u-uml>"}) \ {"{", "}"})

\* utils.remove_accented_characters: the umlauts are written out, unidecode
\* leaves ASCII as it is
remove_accented_characters(string) ==
    Replace(Replace(string, <<"<a-uml>">>, <<"a", "e">>), <<"<u-uml>">>, <<"u", "e">>)

(***************************************************************************)
(* BibTeX entries and exceptions.  An entry (a Python dict) is a function  *)
(* from its field names to their values; the value of "author" is the      *)
(* sequence of the names that " and " separates in the Python string, the  *)
(* value of "ENTRYTYPE" is a word, every other value is a string.  What a  *)
(* step gives is the record [d, raised, calls]: its entry, in raised the   *)
(* exception it raised (<<>> when it raised none), and in calls the calls  *)
(* it made of the classifiers, of the resolvers and of the network.        *)
(***************************************************************************)
\* d[k] = v
With(d, k, v) == [x \in DOMAIN d \cup {k} |-> IF x = k THEN v ELSE d[x]]

\* del d[k]
Without(d, ks) == [x \in DOMAIN d \ ks |-> d[x]]

\* d[k] = f(d[k]) if k in d
Update(d, k, f(_)) == IF k \in DOMAIN d THEN With(d, k, f(d[k])) ELSE d

Exception(type, args) == [type |-> type, args |-> args]

\* The KeyError of d[key] for a missing key
KeyError(key) == Exception("KeyError", key)

\* str(e): the repr of the key for a KeyError, the message otherwise
Str(e) ==
    IF e.type = "KeyError" THEN <<"'">> \o e.args \o <<"'">> ELSE e.args

\* One call with its argument: of a classifier (ret is "yes" or "no"), of
\* a resolver (ret is "record" or "raised") or of the network (op is
\* "request", ret the host asked)
CallOf(op, arg, ret) == [op |-> op, arg |-> arg, ret |-> ret]

Ok(d) == [d |-> d, raised |-> <<>>, calls |-> <<>>]

Raise(d, e) == [d |-> d, raised |-> <<e>>, calls |-> <<>>]

\* A step that made the calls before it gave st
After(calls, st) == [st EXCEPT !.calls = calls \o @]

\* The next statement of a function body: skipped once one has raised
Then(st, f(_)) == IF st.raised # <<>> THEN st ELSE After(st.calls, f(st.d))

(***************************************************************************)
(* process.py: the transforms of postprocess_bibtex                        *)
(***************************************************************************)
\* bibtexparser.customization.splitname, for the names "Last, First" and
\* "First von Last": the words that begin with a lower-case letter before
\* the last word of the family part are the von part; the empty name has
\* no parts
NameParts(given, family, has_comma, lowers) ==
    IF Len(family) = 0
    THEN [first |-> given, von |-> <<>>, last |-> <<>>]
    ELSE IF has_comma
    THEN [first |-> given,
          von   |-> SubSeq(family, 1, SetMax(lowers)),
          last  |-> SubSeq(family, SetMax(lowers) + 1, Len(family))]
    ELSE IF lowers = {}
    THEN [first |-> SubSeq(family, 1, Len(family) - 1),
          von   |-> <<>>,
          last  |-> SubSeq(family, Len(family), Len(family))]
    ELSE [first |-> SubSeq(family, 1, SetMin(lowers) - 1),
          von   |-> SubSeq(family, SetMin(lowers), SetMax(lowers)),
          last  |-> SubSeq(family, SetMax(lowers) + 1, Len(family))]

\* The name cut at its first comma (comma > Len(name): there is none)
SplitAt(name, comma, family) ==
    NameParts(Split(DropFirst(name, comma), {" "}), family, comma <= Len(name),
              {i \in 1..(Len(family) - 1) : family[i][1] \in LowerLetters})

splitname(name) ==
    SplitAt(name, FirstIn(name, {","}),
            Split(SubSeq(name, 1, FirstIn(name, {","}) - 1), {" "}))

TextFields ==
    <<"title", "booktitle", "journal", "publisher", "series", "abstract",
      "note", "address", "organization", "school", "institution",
      "howpublished">>

unescape_amp(text) ==
    Replace(Replace(text, <<"{", "\\", "&", "}", "a", "m", "p", "$", "\\", "m", "a", "t", "h", "s", "e", "m", "i", "c", "o", "l", "o", "n", "$">>, <<"\\", "&">>), <<"&", "a", "m", "p", ";">>, <<"\\", "&">>)

RECURSIVE fix_broken_ampersand_loop(_, _)
fix_broken_ampersand_loop(d, i) ==
    IF i > Len(TextFields) THEN d
    ELSE fix_broken_ampersand_loop(Update(d, TextFields[i], unescape_amp), i + 1)

fix_broken_ampersand(bibtex_dict) == fix_broken_ampersand_loop(bibtex_dict, 1)

fix_broken_pagenumbers(bibtex_dict) ==
    Update(bibtex_dict, "pages",
           LAMBDA pages : Replace(pages, <<"<a-circ>", "<euro>", "<ldquo>">>, <<"-", "-">>))

convert_latex_chars(bibtex_dict) ==
    LET authors == Update(bibtex_dict, "author",
                       LAMBDA names : [i \in 1..Len(names) |->
                                          latex_to_unicode(names[i])])
    IN  Update(authors, "title", latex_to_unicode)

fix_arxiv_entrytype(bibtex_dict, identifier) ==
    After(<<CallOf("is_arxiv_id", identifier,
                   IF is_arxiv_id(identifier) THEN "yes" ELSE "no")>>,
          IF is_arxiv_id(identifier)
          THEN Ok(With(bibtex_dict, "ENTRYTYPE", "article"))
          ELSE Ok(bibtex_dict))

\* constants.JOURNAL_ABBREVIATIONS
JOURNAL_ABBREVIATIONS ==
    [j \in {<<"T", "h", "e", " ", "A", "s", "t", "r", "o", "p", "h", "y", "s", "i", "c", "a", "l", " ", "J", "o", "u", "r", "n", "a", "l">>, <<"A", "s", "t", "r", "o", "n", "o", "m", "y", " ", "\\", "&", " ", "A", "s", "t", "r", "o", "p", "h", "y", "s", "i", "c", "s">>} |->
        IF j = <<"T", "h", "e", " ", "A", "s", "t", "r", "o", "p", "h", "y", "s", "i", "c", "a", "l", " ", "J", "o", "u", "r", "n", "a", "l">> THEN <<"\\", "a", "p", "j">> ELSE <<"\\", "a", "a", "p">>]

abbreviate_journal_name(bibtex_dict) ==
    IF /\ "journal" \in DOMAIN bibtex_dict
       /\ bibtex_dict["journal"] \in DOMAIN JOURNAL_ABBREVIATIONS
    THEN With(bibtex_dict, "journal", JOURNAL_ABBREVIATIONS[bibtex_dict["journal"]])
    ELSE bibtex_dict

\* The value None, where a string is formatted from it
None == <<"N", "o", "n", "e">>

RECURSIVE first_valid_word_loop(_, _)
first_valid_word_loop(words, i) ==
    IF i > Len(words) THEN None
    ELSE LET clean_word == Filter(words[i], LowerLetters \cup UpperLetters \cup {"'"})
         IN  IF Len(clean_word) > 3 /\ ~Contains(clean_word, <<"'">>)
             THEN remove_accented_characters(Lower(clean_word))
             ELSE first_valid_word_loop(words, i + 1)

first_valid_word(sentence) ==
    IF sentence = <<>> THEN sentence
    ELSE first_valid_word_loop(Split(sentence, Whitespace), 1)

RECURSIVE Concat(_)
Concat(words) == IF words = <<>> THEN <<>> ELSE Head(words) \o Concat(Tail(words))

\* lastname: the last name without accents, dashes and spaces, after the
\* capitalised von part
SimplifiedLastName(first_author) ==
    Concat([i \in 1..Len(first_author.von) |-> Title(first_author.von[i])])
        \o Replace(Replace(remove_accented_characters(Concat(first_author.last)),
                           <<"-">>, <<>>), <<" ">>, <<>>)

\* citekey: the name, then the year and the first valid word of the title
\* where there is one
Citekey(lastname, year, title) ==
    lastname \o (IF year # <<>> THEN <<"_">> \o year ELSE <<>>)
             \o (IF title # <<>> THEN <<"_">> \o first_valid_word(title) ELSE <<>>)

generate_citekey(bibtex_dict) ==
    IF "author" \notin DOMAIN bibtex_dict
    THEN Raise(bibtex_dict, KeyError(<<"a", "u", "t", "h", "o", "r">>))
    ELSE Ok(With(bibtex_dict, "ID",
                 Citekey(SimplifiedLastName(splitname(bibtex_dict["author"][1])),
                         IF "year" \in DOMAIN bibtex_dict
                         THEN bibtex_dict["year"] ELSE <<>>,
                         IF "title" \in DOMAIN bibtex_dict
                         THEN bibtex_dict["title"] ELSE <<>>)))

\* A truncation that sets in as soon as the list reaches the limit
truncate_author_list_inclusive(bibtex_entry, config) ==
    IF "author" \notin DOMAIN bibtex_entry THEN bibtex_entry
    ELSE IF Len(bibtex_entry["author"]) >= config.limit_authors
    THEN With(bibtex_entry, "author",
              Append(IF config.limit_authors = 0 THEN <<<<>>>>
                     ELSE SubSeq(bibtex_entry["author"], 1, config.limit_authors),
                     <<"o", "t", "h", "e", "r", "s">>))
    ELSE bibtex_entry

\* process.truncate_author_list: " and ".join of no author at all is the
\* empty string, so a limit of 0 leaves one empty name before "others"
truncate_author_list(bibtex_entry, config) ==
    IF "author" \notin DOMAIN bibtex_entry THEN bibtex_entry
    ELSE LET authors_list == bibtex_entry["author"]
         IN  IF Len(authors_list) > config.limit_authors
             THEN With(bibtex_entry, "author",
                       Append(IF config.limit_authors = 0 THEN <<<<>>>>
                              ELSE SubSeq(authors_list, 1, config.limit_authors),
                              <<"o", "t", "h", "e", "r", "s">>))
             ELSE bibtex_entry

\* "{von Last}, First"
FormatName(name) ==
    LET author    == splitname(name)
        firstname == Join(author.first, <<" ">>)
        von       == Join(author.von, <<" ">>)
        lastname  == Join(author.last, <<" ">>)
    IN  <<"{">> \o (IF von # <<>> THEN von \o <<" ">> ELSE <<>>) \o lastname
             \o <<"}", ",", " ">> \o firstname

\* In the joined string "and {others}, " becomes "and others": that is the
\* formatted name "{others}, " of every author but the first
format_author_names(bibtex_dict) ==
    Update(bibtex_dict, "author",
           LAMBDA names : [i \in 1..Len(names) |->
               IF i > 1 /\ FormatName(names[i]) = <<"{", "o", "t", "h", "e", "r", "s", "}", ",", " ">>
               THEN <<"o", "t", "h", "e", "r", "s">>
               ELSE FormatName(names[i])])

MonthNumber(month) ==
    CASE month \in {<<"j", "a", "n">>, <<"j", "a", "n", "u", "a", "r", "y">>}   -> <<"1">>
      [] month \in {<<"f", "e", "b">>, <<"f", "e", "b", "r", "u", "a", "r", "y">>}  -> <<"2">>
      [] month \in {<<"m", "a", "r">>, <<"m", "a", "r", "c", "h">>}     -> <<"3">>
      [] month \in {<<"a", "p", "r">>, <<"a", "p", "r", "i", "l">>}     -> <<"4">>
      [] month \in {<<"m", "a", "y">>}              -> <<"5">>
      [] month \in {<<"j", "u", "n">>, <<"j", "u", "n", "e">>}      -> <<"6">>
      [] month \in {<<"j", "u", "l">>, <<"j", "u", "l", "y">>}      -> <<"7">>
      [] month \in {<<"a", "u", "g">>, <<"a", "u", "g", "u", "s", "t">>}    -> <<"8">>
      [] month \in {<<"s", "e", "p">>, <<"s", "e", "p", "t", "e", "m", "b", "e", "r">>} -> <<"9">>
      [] month \in {<<"o", "c", "t">>, <<"o", "c", "t", "o", "b", "e", "r">>}   -> <<"1", "0">>
      [] month \in {<<"n", "o", "v">>, <<"n", "o", "v", "e", "m", "b", "e", "r">>}  -> <<"1", "1">>
      [] month \in {<<"d", "e", "c">>, <<"d", "e", "c", "e", "m", "b", "e", "r">>}  -> <<"1", "2">>
      [] OTHER -> month

convert_month_to_number(bibtex_dict) ==
    Update(bibtex_dict, "month", LAMBDA month : MonthNumber(Lower(month)))

\* What ads.get_ads_bibcode_for_identifier can do: raise (no token, or the
\* request fails), find no bibcode, or find one
AdsLookups == {"no_token", "error", "none", "found"}

AdsBibcode == <<"2", "0", "1", "3", "a", "r", "X", "i", "v", "1", "3", "1", "2", ".", "6", "1", "1", "4", "K">>

\* process.resolve_adsurl; lookup is what the ADS lookup does
resolve_adsurl(bibtex_dict, identifier, lookup) ==
    IF "adsurl" \in DOMAIN bibtex_dict THEN Ok(bibtex_dict)
    ELSE IF lookup = "no_token"
    THEN Raise(bibtex_dict, Exception("RuntimeError", <<"No ADS token found">>))
    ELSE After(<<CallOf("request", identifier, "api.adsabs.harvard.edu")>>,
            IF lookup = "error"
            THEN Raise(bibtex_dict,
                       Exception("ConnectionError", <<"ADS request failed">>))
            ELSE IF lookup = "found"
            THEN Ok(With(bibtex_dict, "adsurl",
                         <<"h", "t", "t", "p", "s", ":", "/", "/", "a", "d", "s", "a", "b", "s", ".", "h", "a", "r", "v", "a", "r", "d", ".", "e", "d", "u", "/", "a", "b", "s", "/">> \o AdsBibcode))
            ELSE Ok(bibtex_dict))

\* config.remove_fields.get(key, [])
FieldsToRemove(config, key) ==
    IF key \in DOMAIN config.remove_fields
    THEN config.remove_fields[key] ELSE {}

remove_fields(bibtex_dict, config) ==
    LET general == Without(bibtex_dict, FieldsToRemove(config, "all"))
    IN  IF "ENTRYTYPE" \notin DOMAIN general
        THEN Raise(general, KeyError(<<"E", "N", "T", "R", "Y", "T", "Y", "P", "E">>))
        ELSE Ok(Without(general, FieldsToRemove(config, general["ENTRYTYPE"])))

remove_url_if_doi(bibtex_dict) ==
    IF /\ "url" \in DOMAIN bibtex_dict
       /\ "doi" \in DOMAIN bibtex_dict
       /\ bibtex_dict["url"] = doi_to_url(bibtex_dict["doi"])
    THEN Without(bibtex_dict, {"url"})
    ELSE bibtex_dict

\* What the dblp lookup can do: fail, find no conference paper, or find
\* the venue
DblpLookups == {"error", "none", "venue"}

\* dblp.crossmatch_with_dblp, as DblpModule.crossmatch_with_dblp does it
crossmatch_with_dblp(bibtex_dict, identifier, lookup) ==
    IF "title" \notin DOMAIN bibtex_dict \/ "author" \notin DOMAIN bibtex_dict
    THEN Ok(bibtex_dict)
    ELSE After(<<CallOf("request", identifier, "dblp.org")>>,
            IF lookup = "venue"
            THEN Ok(With(bibtex_dict, "addendum",
                    Strip((IF "addendum" \in DOMAIN bibtex_dict
                           THEN bibtex_dict["addendum"] ELSE <<>>)
                          \o <<" ", "P", "u", "b", "l", "i", "s", "h", "e", "d", " ", "a", "t", " ", "N", "e", "u", "r", "I", "P", "S", "~", "2", "0", "1", "4", ".">>)))
            ELSE Ok(bibtex_dict))

\* A post-processing that generates the citekey after the authors have
\* been truncated and formatted
postprocess_bibtex_citekey_late(bibtex_dict, identifier, config, ads, dblp) ==
    Then(Then(Then(Then(Then(Then(Then(Then(Then(Then(Then(
        Ok(fix_broken_pagenumbers(fix_broken_ampersand(bibtex_dict))),
        LAMBDA d : IF config.convert_latex_chars
                   THEN Ok(convert_latex_chars(d)) ELSE Ok(d)),
        LAMBDA d : IF config.fix_arxiv_entrytype
                   THEN fix_arxiv_entrytype(d, identifier) ELSE Ok(d)),
        LAMBDA d : IF config.abbreviate_journal_names
                   THEN Ok(abbreviate_journal_name(d)) ELSE Ok(d)),
        LAMBDA d : Ok(truncate_author_list(d, config))),
        LAMBDA d : IF config.format_author_names
                   THEN Ok(format_author_names(d)) ELSE Ok(d)),
        LAMBDA d : IF config.generate_citekey
                   THEN generate_citekey(d) ELSE Ok(d)),
        LAMBDA d : IF config.convert_month_to_number
                   THEN Ok(convert_month_to_number(d)) ELSE Ok(d)),
        LAMBDA d : IF config.resolve_adsurl
                   THEN resolve_adsurl(d, identifier, ads) ELSE Ok(d)),
        LAMBDA d : IF DOMAIN config.remove_fields # {}
                   THEN remove_fields(d, config) ELSE Ok(d)),
        LAMBDA d : IF config.remove_url_if_doi
                   THEN Ok(remove_url_if_doi(d)) ELSE Ok(d)),
        LAMBDA d : IF config.crossmatch_with_dblp
                   THEN crossmatch_with_dblp(d, identifier, dblp) ELSE Ok(d))

\* process.postprocess_bibtex; ads and dblp are what the two lookups do
postprocess_bibtex(bibtex_dict, identifier, config, ads, dblp) ==
    Then(Then(Then(Then(Then(Then(Then(Then(Then(Then(Then(
        Ok(fix_broken_pagenumbers(fix_broken_ampersand(bibtex_dict))),
        LAMBDA d : IF config.convert_latex_chars
                   THEN Ok(convert_latex_chars(d)) ELSE Ok(d)),
        LAMBDA d : IF config.fix_arxiv_entrytype
                   THEN fix_arxiv_entrytype(d, identifier) ELSE Ok(d)),
        LAMBDA d : IF config.abbreviate_journal_names
                   THEN Ok(abbreviate_journal_name(d)) ELSE Ok(d)),
        LAMBDA d : IF config.generate_citekey
                   THEN generate_citekey(d) ELSE Ok(d)),
        LAMBDA d : Ok(truncate_author_list(d, config))),
        LAMBDA d : IF config.format_author_names
                   THEN Ok(format_author_names(d)) ELSE Ok(d)),
        LAMBDA d : IF config.convert_month_to_number
                   THEN Ok(convert_month_to_number(d)) ELSE Ok(d)),
        LAMBDA d : IF config.resolve_adsurl
                   THEN resolve_adsurl(d, identifier, ads) ELSE Ok(d)),
        LAMBDA d : IF DOMAIN config.remove_fields # {}
                   THEN remove_fields(d, config) ELSE Ok(d)),
        LAMBDA d : IF config.remove_url_if_doi
                   THEN Ok(remove_url_if_doi(d)) ELSE Ok(d)),
        LAMBDA d : IF config.crossmatch_with_dblp
                   THEN crossmatch_with_dblp(d, identifier, dblp) ELSE Ok(d))

(***************************************************************************)
(* bibtex.py: the entry as text                                            *)
(***************************************************************************)
\* The fields of an entry in the order in which they are written
FieldOrder ==
    <<"addendum", "adsurl", "author", "doi", "eprint", "isbn", "journal", "month",
      "pages", "publisher", "title", "url", "year">>

FieldText(d, k) == IF k = "author" THEN Join(d[k], <<" ", "a", "n", "d", " ">>) ELSE d[k]

RECURSIVE WriteFields(_, _)
WriteFields(d, i) ==
    IF i > Len(FieldOrder) THEN <<>>
    ELSE (IF FieldOrder[i] \in DOMAIN d
          THEN <<" ", FieldOrder[i], " = {">> \o FieldText(d, FieldOrder[i])
                   \o <<"}", ",", "\n">>
          ELSE <<>>) \o WriteFields(d, i + 1)

\* A writer that leaves out what the entry does not have
dict_to_bibtex_string_lenient(bibtex_dict) ==
    Ok(<<"@">>
         \o (IF "ENTRYTYPE" \in DOMAIN bibtex_dict
             THEN <<bibtex_dict["ENTRYTYPE"]>> ELSE <<>>)
         \o <<"{">>
         \o (IF "ID" \in DOMAIN bibtex_dict THEN bibtex_dict["ID"] ELSE <<>>)
         \o <<",", "\n">> \o WriteFields(bibtex_dict, 1) \o <<"}", "\n">>)

\* bibtex.dict_to_bibtex_string: the entry type and the citekey are read
\* first, the fields follow in a fixed order; in d of the result is the
\* text
dict_to_bibtex_string(bibtex_dict) ==
    IF "ENTRYTYPE" \notin DOMAIN bibtex_dict
    THEN Raise(<<>>, KeyError(<<"E", "N", "T", "R", "Y", "T", "Y", "P", "E">>))
    ELSE IF "ID" \notin DOMAIN bibtex_dict
    THEN Raise(<<>>, KeyError(<<"I", "D">>))
    ELSE Ok(<<"@", bibtex_dict["ENTRYTYPE"], "{">> \o bibtex_dict["ID"]
               \o <<",", "\n">> \o WriteFields(bibtex_dict, 1) \o <<"}", "\n">>)

(***************************************************************************)
(* config.py: the configuration                                            *)
(***************************************************************************)
\* Every transform switched on
FullConfiguration ==
    [abbreviate_journal_names |-> TRUE,
     convert_latex_chars      |-> TRUE,
     convert_month_to_number  |-> TRUE,
     crossmatch_with_dblp     |-> TRUE,
     fix_arxiv_entrytype      |-> TRUE,
     format_author_names      |-> TRUE,
     generate_citekey         |-> TRUE,
     limit_authors            |-> 1000,
     remove_fields            |-> [k \in {"all", "article"} |->
                                     IF k = "all" THEN {"abstract"}
                                     ELSE {"publisher", "url"}],
     remove_url_if_doi        |-> TRUE,
     resolve_adsurl           |-> TRUE,
     update_arxiv_if_doi      |-> TRUE]

\* Every transform switched off
BareConfiguration ==
    [abbreviate_journal_names |-> FALSE,
     convert_latex_chars      |-> FALSE,
     convert_month_to_number  |-> FALSE,
     crossmatch_with_dblp     |-> FALSE,
     fix_arxiv_entrytype      |-> FALSE,
     format_author_names      |-> FALSE,
     generate_citekey         |-> FALSE,
     limit_authors            |-> 1000,
     remove_fields            |-> [k \in {} |-> {}],
     remove_url_if_doi        |-> FALSE,
     resolve_adsurl           |-> FALSE,
     update_arxiv_if_doi      |-> FALSE]

\* The configurations given to the model
Configurations ==
    {FullConfiguration,
     BareConfiguration,
     [FullConfiguration EXCEPT !.update_arxiv_if_doi = FALSE,
                                  !.resolve_adsurl = FALSE,
                                  !.limit_authors = 1],
     [FullConfiguration EXCEPT !.fix_arxiv_entrytype = FALSE,
                                  !.generate_citekey = FALSE,
                                  !.crossmatch_with_dblp = FALSE],
     [BareConfiguration EXCEPT !.update_arxiv_if_doi = TRUE,
                               !.remove_fields =
                                   [k \in {"all"} |-> {"ID", "ENTRYTYPE"}]],
     [BareConfiguration EXCEPT !.remove_fields = [k \in {"all"} |-> {"ID"}]],
     [BareConfiguration EXCEPT !.generate_citekey = TRUE,
                               !.limit_authors = 0,
                               !.remove_fields =
                                   [k \in {"article", "misc"} |->
                                       IF k = "article" THEN {"ENTRYTYPE"}
                                       ELSE {"ID"}]]}

(***************************************************************************)
(* resolve.py: the resolvers.  What the service answers is the record      *)
(* [status, entry]: the HTTP status and, in entry, the BibTeX entry parsed *)
(* from the answer (<<>> when the answer holds none).                      *)
(***************************************************************************)
Entry_published ==
    [ENTRYTYPE |-> "article",
     ID        |-> <<"K", "i", "n", "g", "m", "a", "_", "2", "0", "1", "4">>,
     author    |-> <<<<"D", "i", "e", "d", "e", "r", "i", "k", " ", "P", ".", " ", "K", "i", "n", "g", "m", "a">>, <<"M", "a", "x", " ", "{", "\\", "\"", "u", "}", "l", "l", "e", "r">>, <<"R", "i", "a", "n", "n", "e", " ", "v", "a", "n", " ", "d", "e", "n", " ", "B", "e", "r", "g">>>>,
     title     |-> <<"O", "n", " ", "A", "u", "t", "o", "-", "E", "n", "c", "o", "d", "i", "n", "g", " ", "B", "a", "y", "e", "s">>,
     year      |-> <<"2", "0", "1", "4">>,
     month     |-> <<"d", "e", "c">>,
     journal   |-> <<"T", "h", "e", " ", "A", "s", "t", "r", "o", "p", "h", "y", "s", "i", "c", "a", "l", " ", "J", "o", "u", "r", "n", "a", "l">>,
     publisher |-> <<"A", "&", "a", "m", "p", ";", "A", " ", "P", "r", "e", "s", "s">>,
     pages     |-> <<"1", "<a-circ>", "<euro>", "<ldquo>", "9">>,
     doi       |-> <<"1", "0", ".", "1", "2", "3", "4", "/", "x">>,
     url       |-> <<"h", "t", "t", "p", "s", ":", "/", "/", "d", "o", "i", ".", "o", "r", "g", "/", "1", "0", ".", "1", "2", "3", "4", "%", "2", "F", "x">>]

Entry_preprint ==
    [ENTRYTYPE |-> "misc",
     ID        |-> <<"k", "i", "n", "g", "m", "a", "2", "0", "1", "3">>,
     author    |-> <<<<"K", "i", "n", "g", "m", "a", ",", " ", "D", "i", "e", "d", "e", "r", "i", "k", " ", "P", ".">>, <<"W", "e", "l", "l", "i", "n", "g", ",", " ", "M", "a", "x">>>>,
     title     |-> <<"I", "t", "'", "s", " ", "a", "n", " ", "{", "\\", "\"", "a", "}", "h", "n", "l", "i", "c", "h", " ", "n", "e", "t">>,
     year      |-> <<"2", "0", "1", "3">>,
     eprint    |-> <<"1", "3", "1", "2", ".", "6", "1", "1", "4">>,
     doi       |-> <<"1", "0", ".", "1", "2", "3", "4", "/", "x">>]

Entry_preprint_only ==
    [ENTRYTYPE |-> "misc",
     ID        |-> <<"k", "i", "n", "g", "m", "a", "2", "0", "1", "3">>,
     author    |-> <<<<"K", "i", "n", "g", "m", "a", ",", " ", "D", "i", "e", "d", "e", "r", "i", "k", " ", "P", ".">>, <<"W", "e", "l", "l", "i", "n", "g", ",", " ", "M", "a", "x">>>>,
     title     |-> <<"A", "u", "t", "o", "-", "E", "n", "c", "o", "d", "i", "n", "g", " ", "V", "a", "r", "i", "a", "t", "i", "o", "n", "a", "l", " ", "B", "a", "y", "e", "s">>,
     year      |-> <<"2", "0", "1", "3">>,
     month     |-> <<"D", "e", "c">>,
     adsurl    |-> <<"h", "t", "t", "p", "s", ":", "/", "/", "a", "d", "s", "a", "b", "s", ".", "h", "a", "r", "v", "a", "r", "d", ".", "e", "d", "u", "/", "a", "b", "s", "/", "2", "0", "1", "3", "a", "r", "X", "i", "v", "1", "3", "1", "2", ".", "6", "1", "1", "4", "K">>,
     eprint    |-> <<"1", "3", "1", "2", ".", "6", "1", "1", "4">>]

\* An entry without authors
Entry_book ==
    [ENTRYTYPE |-> "book",
     ID        |-> <<"9", "7", "8", "0", "1", "3", "4", "6", "8", "5", "9", "9", "1">>,
     title     |-> <<"E", "f", "f", "e", "c", "t", "i", "v", "e", " ", "J", "a", "v", "a">>,
     publisher |-> <<"A", "d", "d", "i", "s", "o", "n", "-", "W", "e", "s", "l", "e", "y">>]

\* The record of a DOI that is a paper of a conference
Entry_proceedings ==
    [ENTRYTYPE |-> "inproceedings",
     ID        |-> <<"H", "e", "_", "2", "0", "1", "6">>,
     author    |-> <<<<"K", "a", "i", "m", "i", "n", "g", " ", "H", "e">>>>,
     title     |-> <<"D", "e", "e", "p", " ", "N", "e", "t", "s">>,
     year      |-> <<"2", "0", "1", "6">>,
     booktitle |-> <<"C", "V", "P", "R">>,
     doi       |-> <<"1", "0", ".", "1", "1", "0", "9", "/", "c">>]

Entries ==
    {Entry_published, Entry_preprint, Entry_preprint_only, Entry_book,
     Entry_proceedings}

Found(entry) == [status |-> <<"200">>, entry |-> <<entry>>]

\* The answers of a service: an entry, status 404, or status 200 with
\* nothing in it
Responses ==
    {Found(e) : e \in Entries}
        \cup {[status |-> <<"404">>, entry |-> <<>>], [status |-> <<"200">>, entry |-> <<>>]}

RuntimeError(message) == Exception("RuntimeError", message)

\* resolve.resolve_doi
resolve_doi(doi, r) ==
    After(<<CallOf("request", doi, "api.crossref.org")>>,
          IF r.status # <<"200">>
          THEN Raise(<<>>, RuntimeError(<<"Error ">> \o r.status \o <<" resolving DOI \"">>
                               \o doi \o <<"\": no BibTeX entry found">>))
          ELSE IF r.entry = <<>>
          THEN Raise(<<>>, Exception("IndexError", <<"list index out of range">>))
          ELSE Ok(r.entry[1]))

\* resolve.resolve_arxiv_id
resolve_arxiv_id(arxiv_id, r) ==
    After(<<CallOf("request", arxiv_id, "arxiv2bibtex.org")>>,
          IF r.status # <<"200">>
          THEN Raise(<<>>, RuntimeError(<<"Error ">> \o r.status \o <<" resolving ">>
                               \o arxiv_id))
          ELSE IF r.entry = <<>>
          THEN Raise(<<>>, RuntimeError(<<"Error resolving \"">> \o arxiv_id
                               \o <<"\": no BibTeX entry found">>))
          ELSE Ok(r.entry[1]))

\* resolve.resolve_ads_bibcode; token: ads.get_ads_token finds a token
resolve_ads_bibcode(ads_bibcode, r, token) ==
    IF ~token
    THEN Raise(<<>>, RuntimeError(<<"No ADS token found">>))
    ELSE After(<<CallOf("request", ads_bibcode, "api.adsabs.harvard.edu")>>,
          IF r.status # <<"200">>
          THEN Raise(<<>>, RuntimeError(<<"Error ">> \o r.status \o <<" resolving \"">>
                               \o ads_bibcode \o <<"\": no BibTeX entry found">>))
          ELSE IF r.entry = <<>>
          THEN Raise(<<>>, Exception("IndexError", <<"list index out of range">>))
          ELSE Ok(r.entry[1]))

\* d.get(k, "")
Get(d, k) == IF k \in DOMAIN d THEN d[k] ELSE <<>>

\* year[:4]
FirstFour(s) == SubSeq(s, 1, IF Len(s) < 4 THEN Len(s) ELSE 4)

\* The entry made of the first volume of the answer of Google Books (the
\* join of no author is the empty string, which is one empty name)
IsbnEntry(isbn, volume_info) ==
    [ENTRYTYPE |-> "book",
     ID        |-> isbn,
     author    |-> IF "author" \in DOMAIN volume_info
                   THEN volume_info["author"] ELSE << <<>> >>,
     title     |-> Get(volume_info, "title"),
     publisher |-> Get(volume_info, "publisher"),
     year      |-> FirstFour(Get(volume_info, "year")),
     isbn      |-> isbn]

\* isbn.resolve_isbn_with_google_api, as IsbnModule.resolve does it
resolve_isbn_with_google_api(isbn, r) ==
    After(<<CallOf("request", Replace(isbn, <<"-">>, <<>>), "www.googleapis.com")>>,
          IF r.status # <<"200">>
          THEN Raise(<<>>, RuntimeError(<<"Error ">> \o r.status \o <<" resolving ISBN \"">>
                               \o isbn \o <<"\": no BibTeX entry found">>))
          ELSE IF r.entry = <<>>
          THEN Raise(<<>>, RuntimeError(<<"Error resolving ISBN \"">> \o isbn
                               \o <<"\": no BibTeX entry found">>))
          ELSE generate_citekey(IsbnEntry(isbn, r.entry[1])))

\* The classifiers in the order of the if/elif chain of resolve_identifier,
\* each with the resolver of its branch
Classifiers == <<"is_doi", "is_arxiv_id", "is_ads_bibcode", "is_isbn">>

Resolvers ==
    <<"resolve_doi", "resolve_arxiv_id", "resolve_ads_bibcode",
      "resolve_isbn_with_google_api">>

Classify(classifier, identifier) ==
    CASE classifier = "is_doi"         -> is_doi(identifier)
      [] classifier = "is_arxiv_id"    -> is_arxiv_id(identifier)
      [] classifier = "is_ads_bibcode" -> is_ads_bibcode(identifier)
      [] classifier = "is_isbn"        -> is_isbn(identifier)

Consult(classifier, identifier) ==
    CallOf(classifier, identifier,
           IF Classify(classifier, identifier) THEN "yes" ELSE "no")

Resolve(resolver, identifier, r, token) ==
    CASE resolver = "resolve_doi" -> resolve_doi(identifier, r)
      [] resolver = "resolve_arxiv_id" -> resolve_arxiv_id(identifier, r)
      [] resolver = "resolve_ads_bibcode" ->
             resolve_ads_bibcode(identifier, r, token)
      [] resolver = "resolve_isbn_with_google_api" ->
             resolve_isbn_with_google_api(identifier, r)

(***************************************************************************)
(* modules/: the callbacks the modules register.  A resolve callback gives *)
(* in d <<>> for None and <<entry>> for an entry.                          *)
(***************************************************************************)
\* DoiModule.resolve
DoiModule_resolve_eager(identifier_type, identifier, r) ==
    After(resolve_doi(identifier, r).calls, Ok(<<>>))

DoiModule_resolve(identifier_type, identifier, r) ==
    IF identifier_type # "doi" THEN Ok(<<>>)
    ELSE After(<<CallOf("request", identifier, "api.crossref.org")>>,
          IF r.status # <<"200">>
          THEN Raise(<<>>, RuntimeError(<<"Error ">> \o r.status
                     \o <<" resolving DOI \"">> \o identifier
                     \o <<"\": no BibTeX entry found">>))
          ELSE IF r.entry = <<>>
          THEN Raise(<<>>, Exception("IndexError", <<"list index out of range">>))
          ELSE Ok(r.entry))

\* BaseModule.should_include_abstract
should_include_abstract(cfg) == "abstract" \notin FieldsToRemove(cfg, "all")

\* ArxivModule.resolve; abstract is what _fetch_abstract finds (<<>>: None)
ArxivModule_resolve(cfg, identifier_type, identifier, r, abstract) ==
    IF identifier_type # "arxiv" THEN Ok(<<>>)
    ELSE After(<<CallOf("request", identifier, "arxiv2bibtex.org")>>,
          IF r.status # <<"200">>
          THEN Raise(<<>>, RuntimeError(<<"Error ">> \o r.status
                     \o <<" resolving arXiv ID \"">> \o identifier \o <<"\"">>))
          ELSE IF r.entry = <<>>
          THEN Raise(<<>>, RuntimeError(<<"Error resolving \"">> \o identifier
                     \o <<"\": no BibTeX entry found">>))
          ELSE IF should_include_abstract(cfg) /\ "abstract" \notin DOMAIN r.entry[1]
          THEN After(<<CallOf("request", identifier, "export.arxiv.org")>>,
                     IF abstract # <<>>
                     THEN Ok(<<With(r.entry[1], "abstract", abstract[1])>>)
                     ELSE Ok(r.entry))
          ELSE Ok(r.entry))

\* AdsModule.resolve; token: get_ads_token finds a token
AdsModule_resolve(identifier_type, identifier, r, token) ==
    IF identifier_type # "ads" THEN Ok(<<>>)
    ELSE IF ~token THEN Raise(<<>>, RuntimeError(<<"No ADS token found">>))
    ELSE After(<<CallOf("request", identifier, "api.adsabs.harvard.edu")>>,
          IF r.status # <<"200">>
          THEN Raise(<<>>, RuntimeError(<<"Error ">> \o r.status
                     \o <<" resolving ADS bibcode \"">> \o identifier
                     \o <<"\": no BibTeX entry found">>))
          ELSE IF r.entry = <<>>
          THEN Raise(<<>>, Exception("IndexError", <<"list index out of range">>))
          ELSE Ok(r.entry))

\* A callback returns the record it made, or raises
Found_or_raised(st) == IF st.raised = <<>> THEN [st EXCEPT !.d = <<st.d>>] ELSE st

\* IsbnModule.resolve
IsbnModule_resolve(identifier_type, identifier, r) ==
    IF identifier_type # "isbn" THEN Ok(<<>>)
    ELSE Found_or_raised(resolve_isbn_with_google_api(identifier, r))

\* The resolve callback of module m
module_resolve(m, cfg, identifier_type, identifier, r, env) ==
    CASE m = "doi"   -> DoiModule_resolve(identifier_type, identifier, r)
      [] m = "arxiv" -> ArxivModule_resolve(cfg, identifier_type, identifier, r,
                                            env.abstract)
      [] m = "ads"   -> AdsModule_resolve(identifier_type, identifier, r,
                                          env.token)
      [] m = "isbn"  -> IsbnModule_resolve(identifier_type, identifier, r)

\* ArxivModule.update_if_doi: a failure of the request leaves the entry
ArxivModule_update_if_doi(cfg, identifier_type, identifier, bibtex_dict, r) ==
    IF ~cfg.update_arxiv_if_doi THEN Ok(bibtex_dict)
    ELSE IF identifier_type # "arxiv" THEN Ok(bibtex_dict)
    ELSE IF "doi" \notin DOMAIN bibtex_dict THEN Ok(bibtex_dict)
    ELSE After(<<CallOf("request", bibtex_dict["doi"], "api.crossref.org")>>,
          IF r.status = <<"200">> /\ r.entry # <<>>
          THEN Ok(With(With(r.entry[1], "eprint", identifier),
                       "archiveprefix", <<"a", "r", "X", "i", "v">>))
          ELSE Ok(bibtex_dict))

\* ArxivModule.fix_arxiv_entrytype
ArxivModule_fix_arxiv_entrytype(cfg, identifier_type, identifier, bibtex_dict) ==
    IF identifier_type # "arxiv" THEN Ok(bibtex_dict)
    ELSE IF ~cfg.fix_arxiv_entrytype THEN Ok(bibtex_dict)
    ELSE Ok(With(bibtex_dict, "ENTRYTYPE", "article"))

\* AdsModule.add_adsurl_to_bibtex: a failure of the lookup leaves the entry
AdsModule_add_adsurl_to_bibtex(cfg, identifier_type, identifier, bibtex_dict, lookup) ==
    IF ~cfg.resolve_adsurl THEN Ok(bibtex_dict)
    ELSE IF "adsurl" \in DOMAIN bibtex_dict THEN Ok(bibtex_dict)
    ELSE IF lookup = "no_token" THEN Ok(bibtex_dict)
    ELSE After(<<CallOf("request", identifier, "api.adsabs.harvard.edu")>>,
          IF lookup = "found"
          THEN Ok(With(bibtex_dict, "adsurl",
                       <<"h", "t", "t", "p", "s", ":", "/", "/", "a", "d", "s", "a", "b", "s", ".", "h", "a", "r", "v", "a", "r", "d", ".", "e", "d", "u", "/", "a", "b", "s", "/">> \o AdsBibcode))
          ELSE Ok(bibtex_dict))

\* DblpModule.crossmatch_with_dblp
DblpModule_crossmatch_with_dblp(cfg, identifier_type, identifier, bibtex_dict, lookup) ==
    IF ~cfg.crossmatch_with_dblp THEN Ok(bibtex_dict)
    ELSE crossmatch_with_dblp(bibtex_dict, identifier, lookup)

\* What the services answer during one call: r to the request of an
\* entry, abstract to that of an abstract, ads and dblp to the lookups;
\* token: there is an ADS token
Environments ==
    [r : Responses, abstract : {<<>>, <<<<"A", "n", " ", "a", "b", "s", "t", "r", "a", "c", "t", ".">>>>}, token : BOOLEAN,
     ads : AdsLookups, dblp : DblpLookups]

\* The call cb(identifier_type, identifier, bibtex_dict) of a callback of
\* the two postprocess hooks
postprocess_callback(cb, cfg, identifier_type, identifier, bibtex_dict, env) ==
    CASE cb.method = "update_if_doi" ->
             ArxivModule_update_if_doi(cfg, identifier_type, identifier,
                                       bibtex_dict, env.r)
      [] cb.method = "fix_arxiv_entrytype" ->
             ArxivModule_fix_arxiv_entrytype(cfg, identifier_type, identifier,
                                             bibtex_dict)
      [] cb.method = "add_adsurl_to_bibtex" ->
             AdsModule_add_adsurl_to_bibtex(cfg, identifier_type, identifier,
                                            bibtex_dict, env.ads)
      [] cb.method = "crossmatch_with_dblp" ->
             DblpModule_crossmatch_with_dblp(cfg, identifier_type, identifier,
                                             bibtex_dict, env.dblp)
      [] OTHER -> Ok(With(bibtex_dict, "note", <<"s", "e", "e", "n">>))

(***************************************************************************)
(* Bounds of the model                                                     *)
(***************************************************************************)
\* Module instances constructed in one behaviour
MaxInstances == 3

\* Callbacks registered by direct calls of register_hook in one behaviour
MaxDirect == 1

(***************************************************************************)
(* hooks.py: the registry                                                  *)
(***************************************************************************)
\* The keys of the dict hooks
HookNames ==
    {"cli_arg_parse", "cli_exec", "identify", "resolve",
     "before_postprocess_bibtex", "after_postprocess_bibtex"}

\* A hook name that is no key of hooks
UnknownHookName == "postprocess_bibtex"

\* hooks as the module is imported: every list empty
EmptyHooks == [h \in HookNames |-> <<>>]

\* A callback is a bound method: the instance it belongs to (the module
\* name and the number of the instance) and the name of the method.
Callback(m, n, f) == [module |-> m, instance |-> n, method |-> f]

\* ValueError(f"Unknown hook: {hook_name}")
UnknownHookError(name) == Exception("ValueError", <<"Unknown hook: ", name>>)

\* register_hook(hook_name, callback) on the registry h: the registry
\* afterwards and the exception raised, if any (<<>>: none)
register_hook_prepend(h, hook_name, callback) ==
    IF hook_name \notin DOMAIN h
    THEN [hooks |-> h, raised |-> <<UnknownHookError(hook_name)>>]
    ELSE [hooks  |-> [h EXCEPT ![hook_name] = <<callback>> \o @],
          raised |-> <<>>]

register_hook_setdefault(h, hook_name, callback) ==
    [hooks  |-> [n \in DOMAIN h \cup {hook_name} |->
                    IF n = hook_name
                    THEN (IF n \in DOMAIN h THEN h[n] ELSE <<>>)
                             \o <<callback>>
                    ELSE h[n]],
     raised |-> <<>>]

register_hook(h, hook_name, callback) ==
    IF hook_name \notin DOMAIN h
    THEN [hooks |-> h, raised |-> <<UnknownHookError(hook_name)>>]
    ELSE [hooks  |-> [h EXCEPT ![hook_name] = Append(@, callback)],
          raised |-> <<>>]

\* clear_hooks()
clear_hooks(h) == [n \in DOMAIN h |-> <<>>]

(***************************************************************************)
(* modules/: what each module's register_hooks registers, in order         *)
(***************************************************************************)
BuiltinModules ==
    {"doi", "arxiv", "ads", "isbn", "dblp", "plaincli", "fancycli"}

\* A user module under ~/.doi2bibtex/modules whose register_hooks names,
\* after a known hook, a hook that does not exist
CustomModules == {"custom"}

\* A name in the module list for which there is no module
MissingModules == {"missing"}

Reg(hook_name, method) == [hook |-> hook_name, method |-> method]

register_hooks(m) ==
    CASE m = "doi"      -> <<Reg("identify", "identify"),
                             Reg("resolve", "resolve")>>
      [] m = "arxiv"    -> <<Reg("identify", "identify"),
                             Reg("resolve", "resolve"),
                             Reg("before_postprocess_bibtex", "update_if_doi"),
                             Reg("before_postprocess_bibtex",
                                 "fix_arxiv_entrytype")>>
      [] m = "ads"      -> <<Reg("identify", "identify"),
                             Reg("resolve", "resolve"),
                             Reg("after_postprocess_bibtex",
                                 "add_adsurl_to_bibtex")>>
      [] m = "isbn"     -> <<Reg("identify", "identify"),
                             Reg("resolve", "resolve")>>
      [] m = "dblp"     -> <<Reg("after_postprocess_bibtex",
                                 "crossmatch_with_dblp")>>
      [] m = "plaincli" -> <<Reg("cli_exec", "exec_cli")>>
      [] m = "fancycli" -> <<Reg("cli_exec", "exec_cli")>>
      [] m = "custom"   -> <<Reg("identify", "identify"),
                             Reg(UnknownHookName, "transform")>>
      [] OTHER          -> <<>>

\* The calls self._register_hook(...) of register_hooks, one after the
\* other from the i-th on; the first that raises ends the method
RECURSIVE RunRegistrations(_, _, _, _, _)
RunRegistrations(h, m, n, regs, i) ==
    IF i > Len(regs) THEN [hooks |-> h, raised |-> <<>>]
    ELSE LET r == register_hook(h, regs[i].hook, Callback(m, n, regs[i].method))
         IN  IF r.raised # <<>> THEN r
             ELSE RunRegistrations(r.hooks, m, n, regs, i + 1)

\* BaseModule.__init__ for instance number n of module m: register_hooks()
\* is called once
BaseModule_init_twice(h, m, n) ==
    LET first == RunRegistrations(h, m, n, register_hooks(m), 1)
    IN  IF first.raised # <<>> THEN first
        ELSE RunRegistrations(first.hooks, m, n, register_hooks(m), 1)

BaseModule_init(h, m, n) == RunRegistrations(h, m, n, register_hooks(m), 1)

(***************************************************************************)
(* loader.py                                                               *)
(***************************************************************************)
\* discover_module: a class is found for the built-in and the custom
\* modules
discover_module(name) == name \in BuiltinModules \cup CustomModules

\* discover_all_modules: discovered_modules, a dict, is cleared and filled
\* in the order of module_names; a name that occurs twice keeps its first
\* place.  The dict is modelled by the sequence of its keys.
RECURSIVE discover_all_modules(_)
discover_all_modules(module_names) ==
    IF module_names = <<>> THEN <<>>
    ELSE LET n    == Len(module_names)
             init == discover_all_modules(SubSeq(module_names, 1, n - 1))
             last == module_names[n]
         IN  IF discover_module(last) /\ \A i \in 1..Len(init) : init[i] # last
             THEN Append(init, last)
             ELSE init

\* The try/except of the loop body of instantiate_all_modules for module m,
\* whose construction gave c: an exception is caught and printed as a
\* warning, and the module is neither loaded nor returned.  st holds the
\* registry, loaded_modules (the sequence of its items), the list
\* instances, the number of the next instance, the warnings printed, the
\* exception that leaves the function and, for the record, the modules
\* whose constructor was called.
AfterConstruction_reraise(st, m, c) ==
    IF c.raised = <<>>
    THEN [st EXCEPT !.hooks = c.hooks,
                    !.next = @ + 1,
                    !.constructed = Append(@, m),
                    !.loaded = Append(@, [module |-> m, instance |-> st.next]),
                    !.instances = Append(@, [module |-> m, instance |-> st.next])]
    ELSE [st EXCEPT !.hooks = c.hooks,
                    !.next = @ + 1,
                    !.constructed = Append(@, m),
                    !.raised = c.raised]

AfterConstruction(st, m, c) ==
    IF c.raised = <<>>
    THEN [st EXCEPT !.hooks = c.hooks,
                    !.next = @ + 1,
                    !.constructed = Append(@, m),
                    !.loaded = Append(@, [module |-> m, instance |-> st.next]),
                    !.instances = Append(@, [module |-> m, instance |-> st.next])]
    ELSE [st EXCEPT !.hooks = c.hooks,
                    !.next = @ + 1,
                    !.constructed = Append(@, m),
                    !.warnings = Append(@, <<m, c.raised[1]>>)]

\* for module_name, module_class in discovered_modules.items(): ...
\* from the i-th item on; an exception that leaves the body ends the loop
RECURSIVE InstantiateLoop(_, _, _)
InstantiateLoop(discovered, i, st) ==
    IF i > Len(discovered) \/ st.raised # <<>> THEN st
    ELSE InstantiateLoop(discovered, i + 1,
             AfterConstruction(st, discovered[i],
                 BaseModule_init(st.hooks, discovered[i], st.next)))

\* instantiate_all_modules(config): loaded_modules is cleared, the
\* registry is not
instantiate_all_modules(h, discovered, next) ==
    InstantiateLoop(discovered, 1,
        [hooks |-> h, loaded |-> <<>>, instances |-> <<>>, next |-> next,
         warnings |-> <<>>, raised |-> <<>>, constructed |-> <<>>])

(***************************************************************************)
(* search.py: the title search over the backends.  A search result is a   *)
(* record with a title and, for most, a doi ("": none); answers gives for  *)
(* every backend what its request does: the list it returns or the         *)
(* exception it raises                                                      *)
(***************************************************************************)
\* The keys of search_functions, in the order they are written
SearchFunctions == <<"openalex", "crossref", "semanticscholar">>

_add_source_to_results(results, source) ==
    [i \in 1..Len(results) |-> With(results[i], "source", source)]

\* result.get("doi", "")
DoiOf(search_result) ==
    IF "doi" \in DOMAIN search_result THEN search_result["doi"] ELSE ""

\* The loop of _deduplicate_by_doi from results on, seen_dois being seen
RECURSIVE DeduplicateFrom(_, _)
DeduplicateFrom(results, seen_dois) ==
    IF results = <<>> THEN <<>>
    ELSE IF DoiOf(Head(results)) = "" \/ DoiOf(Head(results)) \notin seen_dois
    THEN <<Head(results)>>
         \o DeduplicateFrom(Tail(results),
                IF DoiOf(Head(results)) # "" THEN seen_dois \cup {DoiOf(Head(results))}
                ELSE seen_dois)
    ELSE DeduplicateFrom(Tail(results), seen_dois)

\* A deduplication that keeps the last result of a DOI
_deduplicate_by_doi_last(results) ==
    LET kept == DeduplicateFrom([i \in 1..Len(results) |-> results[Len(results) + 1 - i]], {})
    IN  [i \in 1..Len(kept) |-> kept[Len(kept) + 1 - i]]

_deduplicate_by_doi(results) == DeduplicateFrom(results, {})

\* The i-th result of each of the lists from the k-th list on
RECURSIVE InterleaveRow(_, _, _)
InterleaveRow(lists, i, k) ==
    IF k > Len(lists) THEN <<>>
    ELSE (IF i <= Len(lists[k]) THEN <<lists[k][i]>> ELSE <<>>)
         \o InterleaveRow(lists, i, k + 1)

RECURSIVE InterleaveFrom(_, _, _)
InterleaveFrom(lists, i, max_len) ==
    IF i > max_len THEN <<>>
    ELSE InterleaveRow(lists, i, 1) \o InterleaveFrom(lists, i + 1, max_len)

\* The lists of results_by_source one after the other, from the k-th on
RECURSIVE ChainFrom(_, _)
ChainFrom(lists, k) ==
    IF k > Len(lists) THEN <<>> ELSE lists[k] \o ChainFrom(lists, k + 1)

\* A merge that puts the lists one after the other
_interleave_results_chained(results_by_source, limit) ==
    SubSeq(ChainFrom(results_by_source, 1), 1,
           IF Len(ChainFrom(results_by_source, 1)) <= limit
           THEN Len(ChainFrom(results_by_source, 1))
           ELSE IF limit < 1 THEN 1 ELSE limit)

\* _interleave_results over the values of results_by_source in the order of
\* their insertion; the loop returns once an append has made the list
\* limit long, so it returns one result for a limit below 1
_interleave_results(results_by_source, limit) ==
    LET interleaved == InterleaveFrom(results_by_source, 1,
                           SetMax({Len(results_by_source[k]) : k \in 1..Len(results_by_source)}))
    IN  SubSeq(interleaved, 1,
               IF Len(interleaved) <= limit THEN Len(interleaved)
               ELSE IF limit < 1 THEN 1 ELSE limit)

\* enabled_sources; the default is openalex
enabled_sources(config) ==
    LET listed == SelectSeq(config.search_sources,
                            LAMBDA s : s \in {SearchFunctions[k] : k \in 1..Len(SearchFunctions)})
    IN  IF listed = <<>> THEN <<"openalex">> ELSE listed

SearchFailed == Exception("RequestException", <<"search request failed">>)

\* search_functions[source](): the request of the backend, then
\* _add_source_to_results
search_function(source, title, answers) ==
    After(<<CallOf(source, title,
                   IF answers[source].raised # <<>> THEN "raised" ELSE "answered")>>,
          IF answers[source].raised # <<>> THEN answers[source]
          ELSE Ok(_add_source_to_results(answers[source].d, source)))

\* A sequential mode that returns what the first source answers, empty
\* or not
SequentialFrom_first(sources, title, answers, i) ==
    IF i > Len(sources) THEN Ok(<<>>)
    ELSE search_function(sources[i], title, answers)

\* The sequential mode from the i-th source on: an exception of the call
\* leaves the loop
RECURSIVE SequentialFrom(_, _, _, _)
SequentialFrom(sources, title, answers, i) ==
    IF i > Len(sources) THEN Ok(<<>>)
    ELSE Then(search_function(sources[i], title, answers),
              LAMBDA results : IF results # <<>> THEN Ok(results)
                               ELSE SequentialFrom(sources, title, answers, i + 1))

\* What the futures give, in the order they complete: results_by_source
\* gets the lists that are not empty, an exception is skipped
RECURSIVE CollectFrom(_, _, _, _)
CollectFrom(completed, title, answers, i) ==
    IF i > Len(completed) THEN <<>>
    ELSE (IF /\ answers[completed[i]].raised = <<>>
             /\ answers[completed[i]].d # <<>>
          THEN <<search_function(completed[i], title, answers).d>> ELSE <<>>)
         \o CollectFrom(completed, title, answers, i + 1)

\* The calls of the backends in the order they were submitted
SubmittedCalls(sources, title, answers) ==
    [i \in 1..Len(sources) |-> search_function(sources[i], title, answers).calls[1]]

\* search.search_papers; completed is the order in which the futures of
\* the parallel mode complete
search_papers(title, config, limit, answers, completed) ==
    IF ~config.merge_search_results
    THEN SequentialFrom(enabled_sources(config), title, answers, 1)
    ELSE After(SubmittedCalls(enabled_sources(config), title, answers),
               Ok(_deduplicate_by_doi(
                      _interleave_results(CollectFrom(completed, title, answers, 1),
                                          limit))))

(***************************************************************************)
(* State                                                                   *)
(***************************************************************************)
VARIABLES
    hooks,               \* hooks.hooks
    discovered_modules,  \* loader.discovered_modules (its keys, in order)
    loaded_modules,      \* loader.loaded_modules (its items, in order)
    module_names,        \* the list last given to discover_all_modules
    next_instance,       \* the number the next module instance gets
    direct,              \* the direct calls of register_hook so far
    last_call,           \* the last call of the loader or the registry
    pc,                  \* resolve_identifier: where the call stands
    argument,            \* the identifier given (<<>>: None)
    identifier,          \* the local variable identifier
    config,              \* the argument config
    raise_on_error,      \* the argument raise_on_error
    kind,                \* the branch of the if/elif chain that was taken
    bibtex_dict,         \* the local variable bibtex_dict
    error,               \* the exception caught (<<>>: none)
    result,              \* what the call returned or raised
    calls,               \* the calls made since resolve_identifier began
    resolutions,         \* concurrent calls of resolve_identifier: their locals
    records,             \* the dict objects the concurrent calls have created
    input_history,       \* interactive_mode: input_history
    history_index,       \* interactive_mode: history_index[0] (<<>>: None)
    current_draft,       \* interactive_mode: current_draft[0] (<<>>: None)
    buffer,              \* the text of the prompt's buffer
    search_mode,         \* interactive_mode: search_mode[0]
    prompt,              \* the prompt that is open ("": none)
    key                  \* the last key the open prompt handled ("": none yet)

registryVars ==
    <<hooks, discovered_modules, loaded_modules, module_names,
      next_instance, direct, last_call>>

resolveVars ==
    <<pc, argument, identifier, config, raise_on_error, kind, bibtex_dict,
      error, result, calls>>

concurrentVars == <<resolutions, records>>

interactiveVars ==
    <<input_history, history_index, current_draft, buffer, search_mode, prompt,
      key>>

vars == <<registryVars, resolveVars, concurrentVars, interactiveVars>>

\* The arguments (identifier_type, identifier, bibtex_dict) of a callback
Args(identifier_type, id, entry) ==
    [identifier_type |-> identifier_type, identifier |-> id, entry |-> entry]

NoArgs == Args("", <<>>, <<>>)

\* What last_call records: the function, its arguments, the exception it
\* raised (<<>>: none); of instantiate_all_modules the warnings printed,
\* the instances returned and the modules constructed; of a callback or a
\* hook what it returned, the calls it made and the callbacks it ran
Call(op, hook, callback, r) ==
    [op |-> op, hook |-> hook, callback |-> callback, raised |-> r.raised,
     warnings |-> r.warnings, instances |-> r.instances,
     constructed |-> r.constructed, args |-> NoArgs, returned |-> <<>>,
     calls |-> <<>>, trace |-> <<>>]

Invocation(op, hook, callback, args, st, trace) ==
    [op |-> op, hook |-> hook, callback |-> callback, raised |-> st.raised,
     warnings |-> <<>>, instances |-> <<>>, constructed |-> <<>>,
     args |-> args, returned |-> st.d, calls |-> st.calls, trace |-> trace]

Plain(raised) ==
    [raised |-> raised, warnings |-> <<>>, instances |-> <<>>,
     constructed |-> <<>>]

NoCallback == Callback("", 0, "")

\* The callback of a direct call of register_hook
UserCallback == Callback("user", 0, "callback")

\* The module lists (config.modules) given to discover_all_modules: the
\* identifier modules in two orders, a list with a name twice and a name
\* without module, and lists with the custom module first and in the middle
ModuleLists ==
    { <<>>,
      <<"doi", "arxiv">>,
      <<"arxiv", "doi">>,
      <<"doi", "missing", "doi">>,
      <<"custom", "doi">>,
      <<"arxiv", "custom", "dblp">> }

\* The hook names of the direct calls of register_hook
DirectHookNames == {"identify", UnknownHookName}

\* A dict without keys
EmptyEntry == [k \in {} |-> <<>>]

NoResult == [status |-> "none", text |-> <<>>, raised |-> <<>>]

\* No call of resolve_identifier has been made
ResolveInit ==
    /\ pc = "idle"
    /\ argument = <<>>
    /\ identifier = <<>>
    /\ config = BareConfiguration
    /\ raise_on_error = FALSE
    /\ kind = ""
    /\ bibtex_dict = EmptyEntry
    /\ error = <<>>
    /\ result = NoResult
    /\ calls = <<>>

\* The two calls of resolve_identifier that run side by side
Resolutions == {"first", "second"}

\* The locals of a call of resolve_identifier that has not begun;
\* bibtex_dict is the number of the dict object it is bound to (0: none)
NotStarted ==
    [pc |-> "idle", argument |-> <<>>, identifier |-> <<>>,
     config |-> BareConfiguration, raise_on_error |-> FALSE, kind |-> "",
     bibtex_dict |-> 0, error |-> <<>>, result |-> NoResult,
     services |-> <<>>]

\* No concurrent call has begun, no dict object exists
ConcurrentInit ==
    /\ resolutions = [p \in Resolutions |-> NotStarted]
    /\ records = <<>>

\* interactive_mode before its first prompt
InteractiveInit ==
    /\ input_history = <<>>
    /\ history_index = <<>>
    /\ current_draft = <<>>
    /\ buffer = <<>>
    /\ search_mode = "title"
    /\ prompt = ""
    /\ key = ""

RegistryInit ==
    /\ hooks = EmptyHooks
    /\ discovered_modules = <<>>
    /\ loaded_modules = <<>>
    /\ module_names = <<>>
    /\ next_instance = 1
    /\ direct = 0
    /\ last_call = Call("import", "", NoCallback, Plain(<<>>))
    /\ ResolveInit
    /\ ConcurrentInit
    /\ InteractiveInit

(***************************************************************************)
(* The calls of the registry and the loader                                *)
(***************************************************************************)
\* register_hook(hook_name, UserCallback), called directly
RegisterHook(hook_name) ==
    /\ direct < MaxDirect
    /\ LET r == register_hook(hooks, hook_name, UserCallback)
       IN  /\ hooks' = r.hooks
           /\ last_call' = Call("register_hook", hook_name, UserCallback,
                                Plain(r.raised))
    /\ direct' = direct + 1
    /\ UNCHANGED <<discovered_modules, loaded_modules, module_names,
                   next_instance>>
    /\ UNCHANGED resolveVars
    /\ UNCHANGED <<concurrentVars, interactiveVars>>

\* clear_hooks()
ClearHooks ==
    /\ hooks' = clear_hooks(hooks)
    /\ last_call' = Call("clear_hooks", "", NoCallback, Plain(<<>>))
    /\ UNCHANGED <<discovered_modules, loaded_modules, module_names,
                   next_instance, direct>>
    /\ UNCHANGED resolveVars
    /\ UNCHANGED <<concurrentVars, interactiveVars>>

\* discover_all_modules(names)
DiscoverAllModules_instantiating(names) ==
    /\ next_instance + Len(discover_all_modules(names)) <= MaxInstances + 1
    /\ discovered_modules' = discover_all_modules(names)
    /\ module_names' = names
    /\ \E r \in {instantiate_all_modules(hooks, discover_all_modules(names), next_instance)} :
          /\ hooks' = r.hooks
          /\ loaded_modules' = r.loaded
          /\ next_instance' = r.next
    /\ last_call' = Call("discover_all_modules", "", NoCallback, Plain(<<>>))
    /\ UNCHANGED direct
    /\ UNCHANGED resolveVars
    /\ UNCHANGED <<concurrentVars, interactiveVars>>

DiscoverAllModules(names) ==
    /\ discovered_modules' = discover_all_modules(names)
    /\ module_names' = names
    /\ last_call' = Call("discover_all_modules", "", NoCallback, Plain(<<>>))
    /\ UNCHANGED <<hooks, loaded_modules, next_instance, direct>>
    /\ UNCHANGED resolveVars
    /\ UNCHANGED <<concurrentVars, interactiveVars>>

\* instantiate_all_modules(config)
InstantiateAllModules ==
    /\ next_instance + Len(discovered_modules) <= MaxInstances + 1
    /\ LET r == instantiate_all_modules(hooks, discovered_modules,
                                        next_instance)
       IN  /\ hooks' = r.hooks
           /\ loaded_modules' = r.loaded
           /\ next_instance' = r.next
           /\ last_call' = Call("instantiate_all_modules", "", NoCallback, r)
    /\ UNCHANGED <<discovered_modules, module_names, direct>>
    /\ UNCHANGED resolveVars
    /\ UNCHANGED <<concurrentVars, interactiveVars>>

\* clear_all()
ClearAll ==
    /\ discovered_modules' = <<>>
    /\ loaded_modules' = <<>>
    /\ last_call' = Call("clear_all", "", NoCallback, Plain(<<>>))
    /\ UNCHANGED <<hooks, module_names, next_instance, direct>>
    /\ UNCHANGED resolveVars
    /\ UNCHANGED <<concurrentVars, interactiveVars>>

RegistryNext ==
    \/ \E hook_name \in DirectHookNames : RegisterHook(hook_name)
    \/ ClearHooks
    \/ \E names \in ModuleLists : DiscoverAllModules(names)
    \/ InstantiateAllModules
    \/ ClearAll

\* The module system alone: the calls of hooks.py and loader.py in any
\* order
SpecRegistry == RegistryInit /\ [][RegistryNext]_vars

(***************************************************************************)
(* resolve.py: resolve_identifier, statement by statement.  The registry   *)
(* is the one the start of the program leaves: the modules of the          *)
(* configuration discovered and instantiated once.  The variables of the   *)
(* call hold what the call of resolve_identifier in progress has done, or  *)
(* the last such call when nothing else was called since.                  *)
(***************************************************************************)
\* config.modules
StartupModules == <<"doi", "arxiv", "ads", "isbn", "dblp">>

\* The identifiers given to resolve_identifier; <<>> is None
Arguments ==
    {<<>>} \cup {<<i>> : i \in
        {Id_doi, Id_DOI_prefixed, Id_Doi_prefixed, Id_arxiv, Id_arxiv_prefixed,
         Id_arxiv_old, Id_arxiv_doi, Id_arxiv_spaced, Id_ads, Id_isbn13,
         Id_isbn10, Id_unknown, Id_arxiv_unmatched}}

Kinds == <<"doi", "arxiv", "ads", "isbn">>

\* What stands before the message in the string returned for an exception
ErrorMarker == <<"There was an error:">>

\* The except clause of resolve_identifier
except_handler_reraise(e, raise) ==
    [status |-> "raised", text |-> <<>>, raised |-> <<e>>]

except_handler(e, raise) ==
    IF raise
    THEN [status |-> "raised", text |-> <<>>, raised |-> <<e>>]
    ELSE [status |-> "returned",
          text   |-> <<"\n", " ", " ">> \o ErrorMarker \o <<"\n", " ", " ">>
                         \o Str(e) \o <<"\n">>,
          raised |-> <<>>]

\* A chain of ifs in place of the elifs: every classifier is asked
RECURSIVE Chain_all(_, _)
Chain_all(id, i) ==
    IF i > Len(Classifiers) THEN <<>>
    ELSE <<Consult(Classifiers[i], id)>> \o Chain_all(id, i + 1)

\* The calls of the classifiers that the if/elif chain makes from the i-th
\* on: it stops at the first that answers yes
RECURSIVE Chain(_, _)
Chain(id, i) ==
    IF i > Len(Classifiers) THEN <<>>
    ELSE IF Classify(Classifiers[i], id) THEN <<Consult(Classifiers[i], id)>>
    ELSE <<Consult(Classifiers[i], id)>> \o Chain(id, i + 1)

SpecInit ==
    /\ LET r == instantiate_all_modules(EmptyHooks,
                    discover_all_modules(StartupModules), 1)
       IN  /\ hooks = r.hooks
           /\ loaded_modules = r.loaded
           /\ next_instance = r.next
           /\ last_call = Call("instantiate_all_modules", "", NoCallback, r)
    /\ discovered_modules = discover_all_modules(StartupModules)
    /\ module_names = StartupModules
    /\ direct = 0
    /\ ResolveInit
    /\ ConcurrentInit
    /\ InteractiveInit

\* resolve_identifier(identifier, config, raise_on_error) is called
Start(arg, cfg, raise) ==
    /\ pc = "idle"
    /\ pc' = "preprocess"
    /\ argument' = arg
    /\ config' = cfg
    /\ raise_on_error' = raise
    /\ identifier' = <<>>
    /\ kind' = ""
    /\ bibtex_dict' = EmptyEntry
    /\ error' = <<>>
    /\ result' = NoResult
    /\ calls' = <<>>
    /\ last_call' = Call("resolve_identifier", "", NoCallback, Plain(<<>>))
    /\ UNCHANGED <<hooks, discovered_modules, loaded_modules, module_names,
                   next_instance, direct>>
    /\ UNCHANGED <<concurrentVars, interactiveVars>>

\* identifier = preprocess_identifier(identifier); re.sub raises the
\* TypeError for None
PreprocessStep ==
    /\ pc = "preprocess"
    /\ IF argument = <<>>
       THEN /\ error' = <<Exception("TypeError",
                              <<"expected string or bytes-like object">>)>>
            /\ pc' = "except"
            /\ UNCHANGED identifier
       ELSE /\ identifier' = preprocess_identifier(argument[1])
            /\ pc' = "classify"
            /\ UNCHANGED error
    /\ UNCHANGED <<argument, config, raise_on_error, kind, bibtex_dict,
                   result, calls>>
    /\ UNCHANGED registryVars
    /\ UNCHANGED <<concurrentVars, interactiveVars>>

\* The chain with its last elif written as else: what no classifier
\* accepts is taken for an ISBN
ClassifyStep_else_isbn ==
    /\ pc = "classify"
    /\ \E chain \in {Chain(identifier, 1)} :
           /\ calls' = calls \o chain
           /\ kind' = IF chain[Len(chain)].ret = "yes"
                      THEN Kinds[Len(chain)] ELSE "isbn"
    /\ pc' = "resolve"
    /\ UNCHANGED <<argument, identifier, config, raise_on_error, bibtex_dict,
                   result, error>>
    /\ UNCHANGED registryVars
    /\ UNCHANGED <<concurrentVars, interactiveVars>>

\* if is_doi(identifier) ... elif ... else: raise RuntimeError
ClassifyStep ==
    /\ pc = "classify"
    /\ \E chain \in {Chain(identifier, 1)} :
           /\ calls' = calls \o chain
           /\ IF chain[Len(chain)].ret = "yes"
              THEN /\ kind' = Kinds[Len(chain)]
                   /\ pc' = "resolve"
                   /\ UNCHANGED error
              ELSE /\ error' = <<RuntimeError(<<"Unrecognized identifier: ">>
                                                 \o identifier)>>
                   /\ pc' = "except"
                   /\ UNCHANGED kind
    /\ UNCHANGED <<argument, identifier, config, raise_on_error, bibtex_dict,
                   result>>
    /\ UNCHANGED registryVars
    /\ UNCHANGED <<concurrentVars, interactiveVars>>

\* What a call of a resolver adds to the calls: the call, then its requests
ResolverCalls(resolver, id, st) ==
    <<CallOf(resolver, id, IF st.raised = <<>> THEN "record" ELSE "raised")>>
        \o st.calls

\* bibtex_dict = resolve_...(identifier), in the branch taken
ResolveEffect(r, token) ==
    /\ pc = "resolve"
    /\ \E resolver \in {Resolvers[i] : i \in {k \in 1..Len(Kinds) : Kinds[k] = kind}},
          st \in {Resolve(Resolvers[CHOOSE i \in 1..Len(Kinds) : Kinds[i] = kind],
                          identifier, r, token)} :
           /\ calls' = calls \o ResolverCalls(resolver, identifier, st)
           /\ IF st.raised = <<>>
              THEN /\ bibtex_dict' = st.d
                   /\ pc' = "upgrade"
                   /\ UNCHANGED error
              ELSE /\ error' = st.raised
                   /\ pc' = "except"
                   /\ UNCHANGED bibtex_dict
    /\ UNCHANGED <<argument, identifier, config, raise_on_error, kind, result>>

ResolveStep_registering(r, token) ==
    /\ ResolveEffect(r, token)
    /\ hooks' = register_hook(hooks, "resolve", UserCallback).hooks
    /\ UNCHANGED <<discovered_modules, loaded_modules, module_names,
                   next_instance, direct, last_call>>
    /\ UNCHANGED <<concurrentVars, interactiveVars>>

ResolveStep(r, token) ==
    /\ ResolveEffect(r, token)
    /\ UNCHANGED registryVars
    /\ UNCHANGED <<concurrentVars, interactiveVars>>

\* if config.update_arxiv_if_doi and is_arxiv_id(identifier) and
\* "doi" in bibtex_dict: identifier = bibtex_dict["doi"];
\* bibtex_dict = resolve_doi(identifier)
\* An upgrade that does not ask whether the identifier is an arXiv one
UpgradeStep_any_kind(r) ==
    /\ pc = "upgrade"
    /\ IF config.update_arxiv_if_doi /\ "doi" \in DOMAIN bibtex_dict
       THEN \E doi \in {bibtex_dict["doi"]}, st \in {resolve_doi(bibtex_dict["doi"], r)} :
                /\ identifier' = doi
                /\ calls' = calls \o ResolverCalls("resolve_doi", doi, st)
                /\ IF st.raised = <<>>
                   THEN /\ bibtex_dict' = st.d
                        /\ pc' = "postprocess"
                        /\ UNCHANGED error
                   ELSE /\ error' = st.raised
                        /\ pc' = "except"
                        /\ UNCHANGED bibtex_dict
       ELSE /\ pc' = "postprocess"
            /\ UNCHANGED <<identifier, bibtex_dict, error, calls>>
    /\ UNCHANGED <<argument, config, raise_on_error, kind, result>>
    /\ UNCHANGED registryVars
    /\ UNCHANGED <<concurrentVars, interactiveVars>>

UpgradeStep(r) ==
    /\ pc = "upgrade"
    /\ LET asked == IF config.update_arxiv_if_doi
                    THEN <<Consult("is_arxiv_id", identifier)>> ELSE <<>>
       IN  IF /\ config.update_arxiv_if_doi
              /\ is_arxiv_id(identifier)
              /\ "doi" \in DOMAIN bibtex_dict
           THEN \E doi \in {bibtex_dict["doi"]}, st \in {resolve_doi(bibtex_dict["doi"], r)} :
                    /\ identifier' = doi
                    /\ calls' = calls \o asked
                                      \o ResolverCalls("resolve_doi", doi, st)
                    /\ IF st.raised = <<>>
                       THEN /\ bibtex_dict' = st.d
                            /\ pc' = "postprocess"
                            /\ UNCHANGED error
                       ELSE /\ error' = st.raised
                            /\ pc' = "except"
                            /\ UNCHANGED bibtex_dict
           ELSE /\ calls' = calls \o asked
                /\ pc' = "postprocess"
                /\ UNCHANGED <<identifier, bibtex_dict, error>>
    /\ UNCHANGED <<argument, config, raise_on_error, kind, result>>
    /\ UNCHANGED registryVars
    /\ UNCHANGED <<concurrentVars, interactiveVars>>

\* A post-processing that takes every toggle to be on
PostprocessStep_all_on(ads, dblp) ==
    /\ pc = "postprocess"
    /\ \E st \in {postprocess_bibtex(bibtex_dict, identifier, FullConfiguration, ads, dblp)} :
           /\ calls' = calls \o st.calls
           /\ bibtex_dict' = st.d
           /\ error' = st.raised
           /\ pc' = IF st.raised = <<>> THEN "serialize" ELSE "except"
    /\ UNCHANGED <<argument, identifier, config, raise_on_error, kind, result>>
    /\ UNCHANGED registryVars
    /\ UNCHANGED <<concurrentVars, interactiveVars>>

\* A post-processing whose failure does not keep the entry from being
\* written
PostprocessStep_continuing(ads, dblp) ==
    /\ pc = "postprocess"
    /\ \E st \in {postprocess_bibtex(bibtex_dict, identifier, config, ads, dblp)} :
           /\ calls' = calls \o st.calls
           /\ bibtex_dict' = st.d
           /\ error' = st.raised
           /\ pc' = "serialize"
    /\ UNCHANGED <<argument, identifier, config, raise_on_error, kind, result>>
    /\ UNCHANGED registryVars
    /\ UNCHANGED <<concurrentVars, interactiveVars>>

\* bibtex_dict = postprocess_bibtex(bibtex_dict, identifier, config); the
\* transforms change the dict in place
PostprocessStep(ads, dblp) ==
    /\ pc = "postprocess"
    /\ \E st \in {postprocess_bibtex(bibtex_dict, identifier, config, ads, dblp)} :
           /\ calls' = calls \o st.calls
           /\ bibtex_dict' = st.d
           /\ error' = st.raised
           /\ pc' = IF st.raised = <<>> THEN "serialize" ELSE "except"
    /\ UNCHANGED <<argument, identifier, config, raise_on_error, kind, result>>
    /\ UNCHANGED registryVars
    /\ UNCHANGED <<concurrentVars, interactiveVars>>

\* return dict_to_bibtex_string(bibtex_dict).strip()
SerializeStep ==
    /\ pc = "serialize"
    /\ \E st \in {dict_to_bibtex_string(bibtex_dict)} :
           IF st.raised = <<>>
           THEN /\ result' = [status |-> "returned", text |-> Strip(st.d),
                              raised |-> <<>>]
                /\ pc' = "idle"
                /\ UNCHANGED error
           ELSE /\ error' = st.raised
                /\ pc' = "except"
                /\ UNCHANGED result
    /\ UNCHANGED <<argument, identifier, config, raise_on_error, kind,
                   bibtex_dict, calls>>
    /\ UNCHANGED registryVars
    /\ UNCHANGED <<concurrentVars, interactiveVars>>

\* except Exception as e
ExceptStep ==
    /\ pc = "except"
    /\ result' = except_handler(error[1], raise_on_error)
    /\ pc' = "idle"
    /\ UNCHANGED <<argument, identifier, config, raise_on_error, kind,
                   bibtex_dict, error, calls>>
    /\ UNCHANGED registryVars
    /\ UNCHANGED <<concurrentVars, interactiveVars>>

(***************************************************************************)
(* The callbacks of the registry, called as the hooks' signatures say      *)
(***************************************************************************)
\* The identifiers and the entries given to the callbacks
CallbackIdentifiers == {Id_doi, Id_arxiv}

CallbackEntries == {Entry_preprint, Entry_book}

CallbackConfigurations == {FullConfiguration, BareConfiguration}

CallbackEnvironments ==
    {env \in Environments :
        /\ env.r \in {Found(Entry_published), [status |-> <<"404">>, entry |-> <<>>]}
        /\ env.ads \in {"found", "error"}
        /\ env.dblp \in {"venue", "none"}
        /\ env.token = (env.ads = "found")
        /\ (env.abstract = <<>>) = (env.dblp = "none")}

\* The variables of resolve_identifier when something else is called
Forgotten ==
    /\ pc' = "idle"
    /\ argument' = <<>>
    /\ identifier' = <<>>
    /\ config' = BareConfiguration
    /\ raise_on_error' = FALSE
    /\ kind' = ""
    /\ bibtex_dict' = EmptyEntry
    /\ error' = <<>>
    /\ result' = NoResult
    /\ calls' = <<>>

\* callback(identifier_type, identifier) for a callback of the resolve hook
CallResolveCallback(i, cfg, identifier_type, id, env) ==
    /\ pc = "idle"
    /\ i \in 1..Len(hooks["resolve"])
    /\ LET cb == hooks["resolve"][i]
           st == module_resolve(cb.module, cfg, identifier_type, id, env.r, env)
       IN  last_call' = Invocation("callback", "resolve", cb,
                                   Args(identifier_type, id, <<>>), st, <<>>)
    /\ Forgotten
    /\ UNCHANGED <<hooks, discovered_modules, loaded_modules, module_names,
                   next_instance, direct>>
    /\ UNCHANGED <<concurrentVars, interactiveVars>>

\* One run of a callback: what it was given and what it returned
Ran(cb, given, returned) == [callback |-> cb, given |-> given, returned |-> returned]

\* The callbacks of a postprocess hook from the i-th on, each given what
\* the one before it returned; acc is [d, raised, calls, trace]
RECURSIVE FoldFrom(_, _, _, _, _, _, _)
FoldFrom(callbacks, i, cfg, identifier_type, id, acc, env) ==
    IF i > Len(callbacks) \/ acc.raised # <<>> THEN acc
    ELSE LET st == postprocess_callback(callbacks[i], cfg, identifier_type, id,
                                        acc.d, env)
         IN  FoldFrom(callbacks, i + 1, cfg, identifier_type, id,
                      [d      |-> st.d,
                       raised |-> st.raised,
                       calls  |-> acc.calls \o st.calls,
                       trace  |-> Append(acc.trace,
                                         Ran(callbacks[i], acc.d, st.d))],
                      env)

\* A hook that stops at the first callback
invoke_postprocess_hook_first(callbacks, cfg, identifier_type, id, entry, env) ==
    FoldFrom(SubSeq(callbacks, 1, IF callbacks = <<>> THEN 0 ELSE 1), 1, cfg,
             identifier_type, id,
             [d |-> entry, raised |-> <<>>, calls |-> <<>>, trace |-> <<>>], env)

\* The invocation of before_postprocess_bibtex or after_postprocess_bibtex
invoke_postprocess_hook(callbacks, cfg, identifier_type, id, entry, env) ==
    FoldFrom(callbacks, 1, cfg, identifier_type, id,
             [d |-> entry, raised |-> <<>>, calls |-> <<>>, trace |-> <<>>], env)

PostprocessHooks == {"before_postprocess_bibtex", "after_postprocess_bibtex"}

InvokePostprocessHook(hook_name, cfg, identifier_type, id, entry, env) ==
    /\ pc = "idle"
    /\ LET acc == invoke_postprocess_hook(hooks[hook_name], cfg,
                                          identifier_type, id, entry, env)
       IN  last_call' = Invocation("invoke", hook_name, NoCallback,
                                   Args(identifier_type, id, entry), acc,
                                   acc.trace)
    /\ Forgotten
    /\ UNCHANGED <<hooks, discovered_modules, loaded_modules, module_names,
                   next_instance, direct>>
    /\ UNCHANGED <<concurrentVars, interactiveVars>>

(***************************************************************************)
(* The program after its start: calls of resolve_identifier, of the        *)
(* callbacks and of the hooks                                              *)
(***************************************************************************)
Next ==
    \/ \E arg \in Arguments, cfg \in Configurations, raise \in BOOLEAN :
           Start(arg, cfg, raise)
    \/ PreprocessStep
    \/ ClassifyStep
    \/ \E r \in Responses, token \in BOOLEAN : ResolveStep(r, token)
    \/ \E r \in Responses : UpgradeStep(r)
    \/ \E ads \in AdsLookups, dblp \in DblpLookups : PostprocessStep(ads, dblp)
    \/ SerializeStep
    \/ ExceptStep
    \/ \E i \in 1..Len(StartupModules), cfg \in CallbackConfigurations,
          identifier_type \in {Kinds[k] : k \in 1..Len(Kinds)},
          id \in CallbackIdentifiers, env \in CallbackEnvironments :
           CallResolveCallback(i, cfg, identifier_type, id, env)
    \/ \E hook_name \in PostprocessHooks, cfg \in CallbackConfigurations,
          identifier_type \in {Kinds[k] : k \in 1..Len(Kinds)},
          id \in CallbackIdentifiers, entry \in CallbackEntries,
          env \in CallbackEnvironments :
           InvokePostprocessHook(hook_name, cfg, identifier_type, id, entry, env)

Spec == SpecInit /\ [][Next]_vars

(***************************************************************************)
(* process.py alone: its functions called one at a time, each with a       *)
(* record, a configuration or an identifier of its own.  last_call keeps   *)
(* what was given, bibtex_dict, identifier and error what came back.       *)
(***************************************************************************)
\* The records given to the transforms: the entries and one whose title
\* has no word of more than three letters, each also without some of
\* author, year and title
Entry_short_title ==
    [Entry_proceedings EXCEPT !["title"] = <<"O", "n", " ", "A", "I">>]

TransformRecords ==
    {Without(e, ks) : e \in Entries \cup {Entry_short_title},
                      ks \in SUBSET {"author", "year", "title"}}

\* What a call of a transform leaves in the variables
Transformed(op, cfg, entry, st) ==
    /\ pc = "idle"
    /\ last_call' = Invocation(op, "", NoCallback, Args("", <<>>, entry), st, <<>>)
    /\ config' = cfg
    /\ bibtex_dict' = st.d
    /\ error' = st.raised
    /\ UNCHANGED <<pc, argument, identifier, raise_on_error, kind, result, calls>>
    /\ UNCHANGED <<hooks, discovered_modules, loaded_modules, module_names,
                   next_instance, direct>>
    /\ UNCHANGED <<concurrentVars, interactiveVars>>

\* generate_citekey(bibtex_dict)
CallGenerateCitekey(entry) ==
    \E st \in {generate_citekey(entry)} :
        Transformed("generate_citekey", BareConfiguration, entry, st)

\* The limits of truncate_author_list: none kept, fewer than, as many as
\* and more than the authors of the records
AuthorLimits == {0, 1, 2, 1000}

\* truncate_author_list(bibtex_entry, config)
CallTruncateAuthorList(entry, limit) ==
    \E cfg \in {[BareConfiguration EXCEPT !.limit_authors = limit]} :
        Transformed("truncate_author_list", cfg, entry,
                    Ok(truncate_author_list(entry, cfg)))

MonthValues ==
    {<<"j", "a", "n">>, <<"M", "a", "r", "c", "h">>, <<"M", "A", "Y">>,
     <<"S", "p", "r", "i", "n", "g">>, <<"1", "2">>, <<"s", "u", "m", "m", "e", "r">>}

\* The records given to convert_month_to_number
MonthRecords ==
    Entries \cup {With(Entry_published, "month", m) : m \in MonthValues}

\* convert_month_to_number(bibtex_dict)
CallConvertMonthToNumber(entry) ==
    Transformed("convert_month_to_number", BareConfiguration, entry,
                Ok(convert_month_to_number(entry)))

Id_dOI_prefixed == <<"d", "O", "I", ":", "1", "0", ".", "1", "2", "3", "4", "/", "x">>

Id_arxiv_url == <<"h", "t", "t", "p", "s", ":", "/", "/", "a", "r", "x", "i", "v", ".", "o", "r", "g", "/", "a", "b", "s", "/", "1", "3", "1", "2", ".", "6", "1", "1", "4">>

Id_arxiv_lower_unmatched == <<"a", "r", "x", "i", "v", "-", "p", "a", "p", "e", "r">>

\* The identifiers given to preprocess_identifier
ProcessIdentifiers ==
    {Id_doi, Id_doi_prefixed, Id_DOI_prefixed, Id_Doi_prefixed, Id_dOI_prefixed,
     Id_arxiv, Id_arxiv_prefixed, Id_arxiv_old, Id_arxiv_doi, Id_arxiv_spaced,
     Id_arxiv_url, Id_arxiv_unmatched, Id_arxiv_lower_unmatched, Id_ads,
     Id_isbn13, Id_isbn10, Id_unknown}

\* preprocess_identifier(identifier): argument keeps what was given,
\* identifier what came back
CallPreprocessIdentifier(id) ==
    /\ pc = "idle"
    /\ last_call' = Invocation("preprocess_identifier", "", NoCallback,
                               Args("", id, <<>>), Ok(<<>>), <<>>)
    /\ argument' = <<id>>
    /\ identifier' = preprocess_identifier(id)
    /\ UNCHANGED <<pc, config, raise_on_error, kind, bibtex_dict, error, result, calls>>
    /\ UNCHANGED <<hooks, discovered_modules, loaded_modules, module_names,
                   next_instance, direct>>
    /\ UNCHANGED <<concurrentVars, interactiveVars>>

ProcessNext ==
    \/ \E entry \in TransformRecords : CallGenerateCitekey(entry)
    \/ \E entry \in TransformRecords, limit \in AuthorLimits :
           CallTruncateAuthorList(entry, limit)
    \/ \E entry \in MonthRecords : CallConvertMonthToNumber(entry)
    \/ \E id \in ProcessIdentifiers : CallPreprocessIdentifier(id)

SpecProcess == RegistryInit /\ [][ProcessNext]_vars

(***************************************************************************)
(* search.py alone: search_papers and _deduplicate_by_doi called with a    *)
(* title, a configuration and results of their own.  last_call keeps what  *)
(* was given, calls the requests of the backends, result and error what    *)
(* came back.                                                               *)
(***************************************************************************)
Result_a == [title |-> "A", doi |-> "10.1/a"]

Result_a_again == [title |-> "A (preprint)", doi |-> "10.1/a"]

Result_b == [title |-> "B", doi |-> "10.1/b"]

Result_empty_doi == [title |-> "E", doi |-> ""]

Result_no_doi == [title |-> "N"]

\* What a backend can do: raise (an HTTP error, a timeout) or return a list
BackendAnswers ==
    {Raise(<<>>, SearchFailed), Ok(<<>>), Ok(<<Result_a, Result_b>>),
     Ok(<<Result_empty_doi, Result_a_again>>)}

SearchAnswers ==
    [{SearchFunctions[k] : k \in 1..Len(SearchFunctions)} -> BackendAnswers]

\* search_sources of the configuration: nothing, all backends, two of them
\* in another order, and a list with a name that is no backend
SearchSourceLists ==
    {<<>>, <<"openalex", "crossref", "semanticscholar">>, <<"crossref", "openalex">>,
     <<"semanticscholar", "scholar", "crossref">>}

SearchConfigurations ==
    [search_sources : SearchSourceLists, merge_search_results : BOOLEAN]

SearchLimits == {2, 10}

\* The orders in which the futures of the sources can complete; the
\* sequential mode has no futures
CompletionOrders(cfg) ==
    IF ~cfg.merge_search_results THEN {enabled_sources(cfg)}
    ELSE {order \in [1..Len(enabled_sources(cfg)) ->
                          {enabled_sources(cfg)[k] : k \in 1..Len(enabled_sources(cfg))}] :
             \A m, n \in 1..Len(enabled_sources(cfg)) : m # n => order[m] # order[n]}

\* The lists given to _deduplicate_by_doi
MaxResults == 3

DeduplicationInputs ==
    UNION {[1..n -> {Result_a, Result_a_again, Result_b, Result_empty_doi, Result_no_doi}] :
              n \in 0..MaxResults}

\* What a call of search.py leaves in the variables
Searched(op, args, cfg, st) ==
    /\ pc = "idle"
    /\ last_call' = Invocation(op, "", NoCallback, args, st, <<>>)
    /\ config' = cfg
    /\ calls' = st.calls
    /\ error' = st.raised
    /\ result' = [status |-> IF st.raised = <<>> THEN "returned" ELSE "raised",
                  results |-> st.d, raised |-> st.raised]
    /\ UNCHANGED <<pc, argument, identifier, raise_on_error, kind, bibtex_dict>>
    /\ UNCHANGED <<hooks, discovered_modules, loaded_modules, module_names,
                   next_instance, direct>>
    /\ UNCHANGED <<concurrentVars, interactiveVars>>

\* search_papers(title, config, limit)
CallSearchPapers(title, cfg, limit, answers, completed) ==
    \E st \in {search_papers(title, cfg, limit, answers, completed)} :
        Searched("search_papers",
                 [title |-> title, limit |-> limit, answers |-> answers,
                  completed |-> completed],
                 cfg, st)

\* _deduplicate_by_doi(results)
CallDeduplicateByDoi(results) ==
    Searched("_deduplicate_by_doi", [results |-> results], config,
             Ok(_deduplicate_by_doi(results)))

SearchNext ==
    \/ \E cfg \in SearchConfigurations, limit \in SearchLimits, answers \in SearchAnswers :
           \E completed \in CompletionOrders(cfg) :
               CallSearchPapers("bayes", cfg, limit, answers, completed)
    \/ \E results \in DeduplicationInputs : CallDeduplicateByDoi(results)

SpecSearch == RegistryInit /\ [][SearchNext]_vars

(***************************************************************************)
(* Two calls of resolve_identifier side by side.  Each has its locals in   *)
(* resolutions; bibtex_dict is a reference to a dict object of records,    *)
(* which the resolvers create and post-processing changes in place.  The   *)
(* answers of the services are fixed when the call begins.  A step takes   *)
(* the locals l of one call and the objects h.                             *)
(***************************************************************************)
\* The dict a resolver returns is a new object
NewRecord(h, d) == [ref |-> Len(h) + 1, records |-> Append(h, d)]

Started(arg, cfg, raise, services) ==
    [NotStarted EXCEPT !.pc = "preprocess", !.argument = arg, !.config = cfg,
                       !.raise_on_error = raise, !.services = services]

\* identifier = preprocess_identifier(identifier)
StepPreprocess(l, h) ==
    [l |-> IF l.argument = <<>>
           THEN [l EXCEPT !.error = <<Exception("TypeError",
                                        <<"expected string or bytes-like object">>)>>,
                          !.pc = "except"]
           ELSE [l EXCEPT !.identifier = preprocess_identifier(l.argument[1]),
                          !.pc = "classify"],
     h |-> h]

Classified(l, chain) ==
    IF chain[Len(chain)].ret = "yes"
    THEN [l EXCEPT !.kind = Kinds[Len(chain)], !.pc = "resolve"]
    ELSE [l EXCEPT !.error = <<RuntimeError(<<"Unrecognized identifier: ">>
                                               \o l.identifier)>>,
                   !.pc = "except"]

\* if is_doi(identifier) ... elif ... else: raise RuntimeError
StepClassify(l, h) == [l |-> Classified(l, Chain(l.identifier, 1)), h |-> h]

\* bibtex_dict is a module-level name: every call binds the one object
Bound_global(l, h, st, next) ==
    IF st.raised = <<>>
    THEN [l |-> [l EXCEPT !.bibtex_dict = 1, !.pc = next],
          h |-> IF h = <<>> THEN <<st.d>> ELSE [h EXCEPT ![1] = st.d]]
    ELSE [l |-> [l EXCEPT !.error = st.raised, !.pc = "except"], h |-> h]

\* bibtex_dict = <the call that gave st>: a local name of this call
Bound(l, h, st, next) ==
    IF st.raised = <<>>
    THEN [l |-> [l EXCEPT !.bibtex_dict = NewRecord(h, st.d).ref, !.pc = next],
          h |-> NewRecord(h, st.d).records]
    ELSE [l |-> [l EXCEPT !.error = st.raised, !.pc = "except"], h |-> h]

\* bibtex_dict = resolve_...(identifier), in the branch taken
StepResolve(l, h) ==
    Bound(l, h,
          Resolve(Resolvers[CHOOSE i \in 1..Len(Kinds) : Kinds[i] = l.kind],
                  l.identifier, l.services.r, l.services.token),
          "upgrade")

\* The upgrade of an arXiv record that has a DOI
StepUpgrade(l, h) ==
    IF /\ l.config.update_arxiv_if_doi
       /\ is_arxiv_id(l.identifier)
       /\ "doi" \in DOMAIN h[l.bibtex_dict]
    THEN Bound([l EXCEPT !.identifier = h[l.bibtex_dict]["doi"]], h,
               resolve_doi(h[l.bibtex_dict]["doi"], l.services.upgrade),
               "postprocess")
    ELSE [l |-> [l EXCEPT !.pc = "postprocess"], h |-> h]

Postprocessed(l, h, st) ==
    [l |-> [l EXCEPT !.error = st.raised,
                     !.pc = IF st.raised = <<>> THEN "serialize" ELSE "except"],
     h |-> [h EXCEPT ![l.bibtex_dict] = st.d]]

\* bibtex_dict = postprocess_bibtex(bibtex_dict, identifier, config): the
\* object is changed in place
StepPostprocess(l, h) ==
    Postprocessed(l, h,
                  postprocess_bibtex(h[l.bibtex_dict], l.identifier, l.config,
                                     l.services.ads, l.services.dblp))

Serialized(l, st) ==
    IF st.raised = <<>>
    THEN [l EXCEPT !.result = [status |-> "returned", text |-> Strip(st.d),
                               raised |-> <<>>],
                   !.pc = "done"]
    ELSE [l EXCEPT !.error = st.raised, !.pc = "except"]

\* return dict_to_bibtex_string(bibtex_dict).strip()
StepSerialize(l, h) ==
    [l |-> Serialized(l, dict_to_bibtex_string(h[l.bibtex_dict])), h |-> h]

\* except Exception as e
StepExcept(l, h) ==
    [l |-> [l EXCEPT !.result = except_handler(l.error[1], l.raise_on_error),
                     !.pc = "done"],
     h |-> h]

\* The answers of the services to a concurrent call
ConcurrentServices ==
    [r : {Found(Entry_preprint), Found(Entry_book), [status |-> <<"404">>, entry |-> <<>>]},
     token : {TRUE}, upgrade : {Found(Entry_published)},
     ads : {"found", "error"}, dblp : {"venue"}]

ConcurrentArguments == {<<Id_doi>>, <<Id_arxiv>>, <<Id_unknown>>}

ConcurrentConfigurations == {FullConfiguration, BareConfiguration}

\* resolve_identifier(identifier, config) is called in one of the two
\* threads, with an identifier the other call was not given
BeginResolution(p, arg, cfg, services) ==
    /\ resolutions[p].pc = "idle"
    /\ \A q \in Resolutions \ {p} : resolutions[q].argument # arg
    /\ resolutions' = [resolutions EXCEPT ![p] = Started(arg, cfg, FALSE, services)]
    /\ UNCHANGED records
    /\ UNCHANGED <<registryVars, resolveVars, interactiveVars>>

\* The call p takes the step that stands at at
Advanced(p, at, step) ==
    /\ resolutions[p].pc = at
    /\ resolutions' = [resolutions EXCEPT ![p] = step.l]
    /\ records' = step.h
    /\ UNCHANGED <<registryVars, resolveVars, interactiveVars>>

ConcurrentPreprocess(p) ==
    Advanced(p, "preprocess", StepPreprocess(resolutions[p], records))

ConcurrentClassify(p) ==
    Advanced(p, "classify", StepClassify(resolutions[p], records))

ConcurrentResolve(p) ==
    Advanced(p, "resolve", StepResolve(resolutions[p], records))

ConcurrentUpgrade(p) ==
    Advanced(p, "upgrade", StepUpgrade(resolutions[p], records))

ConcurrentPostprocess(p) ==
    Advanced(p, "postprocess", StepPostprocess(resolutions[p], records))

ConcurrentSerialize(p) ==
    Advanced(p, "serialize", StepSerialize(resolutions[p], records))

ConcurrentExcept(p) ==
    Advanced(p, "except", StepExcept(resolutions[p], records))

ConcurrentNext ==
    \/ \E p \in Resolutions, arg \in ConcurrentArguments,
          cfg \in ConcurrentConfigurations, services \in ConcurrentServices :
           BeginResolution(p, arg, cfg, services)
    \/ \E p \in Resolutions : ConcurrentPreprocess(p)
    \/ \E p \in Resolutions : ConcurrentClassify(p)
    \/ \E p \in Resolutions : ConcurrentResolve(p)
    \/ \E p \in Resolutions : ConcurrentUpgrade(p)
    \/ \E p \in Resolutions : ConcurrentPostprocess(p)
    \/ \E p \in Resolutions : ConcurrentSerialize(p)
    \/ \E p \in Resolutions : ConcurrentExcept(p)

SpecConcurrent == SpecInit /\ [][ConcurrentNext]_vars

(***************************************************************************)
(* interactive_mode (interactive/interactive.py): the prompt loop and the  *)
(* key bindings that navigate the input history.  history_index and        *)
(* current_draft are <<>> for None; an index counts from 0 as in the code. *)
(* A text is a sequence of characters.                                     *)
(***************************************************************************)
MaxHistory == 2

ControlCharacters == {"\n", "\t"}

\* re.sub(r'[\x00-\x1f\x7f]', ' ', text)
ReplaceControl(text) ==
    [k \in 1..Len(text) |-> IF text[k] \in ControlCharacters THEN " " ELSE text[k]]

\* re.sub(r'\s+', ' ', text), from the character k on
RECURSIVE CollapseFrom(_, _)
CollapseFrom(text, k) ==
    IF k > Len(text) THEN <<>>
    ELSE IF text[k] = " " /\ k > 1 /\ text[k - 1] = " "
         THEN CollapseFrom(text, k + 1)
         ELSE <<text[k]>> \o CollapseFrom(text, k + 1)

normalize_text(text) == CollapseFrom(ReplaceControl(text), 1)

\* The state the key bindings of the history work on
Navigation(h, i, d, t) ==
    [input_history |-> h, history_index |-> i, current_draft |-> d, buffer |-> t]

\* "Load history entry": if 0 <= history_index[0] < len(input_history)
Loaded(s) ==
    IF /\ 0 <= s.history_index[1]
       /\ s.history_index[1] < Len(s.input_history)
    THEN [s EXCEPT !.buffer = s.input_history[s.history_index[1] + 1]]
    ELSE s

\* The binding of up that stores no draft
Previous_no_draft(h, i, d, t) ==
    IF h = <<>> THEN Navigation(h, i, d, t)
    ELSE IF i = <<>> THEN Loaded(Navigation(h, <<Len(h) - 1>>, d, t))
    ELSE IF i[1] > 0
         THEN Loaded(Navigation([h EXCEPT ![i[1] + 1] = t], <<i[1] - 1>>, d, t))
         ELSE Loaded(Navigation(h, i, d, t))

\* The binding of up, and of c-p
Previous(h, i, d, t) ==
    IF h = <<>> THEN Navigation(h, i, d, t)
    ELSE IF i = <<>> THEN Loaded(Navigation(h, <<Len(h) - 1>>, <<t>>, t))
    ELSE IF i[1] > 0
         THEN Loaded(Navigation([h EXCEPT ![i[1] + 1] = t], <<i[1] - 1>>, d, t))
         ELSE Loaded(Navigation(h, i, d, t))

\* The binding of down that moves on from the last entry
Following_unbounded(h, i, d, t) ==
    IF h = <<>> \/ i = <<>> THEN Navigation(h, i, d, t)
    ELSE Navigation([h EXCEPT ![i[1] + 1] = t], <<i[1] + 1>>, d, t)

\* The binding of down, and of c-n
Following(h, i, d, t) ==
    IF h = <<>> \/ i = <<>> THEN Navigation(h, i, d, t)
    ELSE IF i[1] < Len(h) - 1
         THEN Navigation([h EXCEPT ![i[1] + 1] = t], <<i[1] + 1>>, d,
                         [h EXCEPT ![i[1] + 1] = t][i[1] + 2])
         ELSE Navigation([h EXCEPT ![i[1] + 1] = t], <<>>, d,
                         IF d # <<>> THEN d[1] ELSE <<>>)

\* "Add to history (avoid duplicates of the last entry)"
Submitted(h, input_text) ==
    IF h = <<>> \/ h[Len(h)] # input_text THEN Append(h, input_text) ELSE h

\* prompt_text = "Title: " if search_mode[0] == "title" else "DOI: "
prompt_text(mode) == IF mode = "title" THEN "Title: " ELSE "DOI: "

Open == prompt \in {"Title: ", "DOI: ", "Edit: "}

\* The texts the user types, and the texts the OCR reads
Texts == {<<>>, <<"a">>, <<"a", "\n">>}

OcrTexts == {<<"a">>}

\* The next turn of the loop: session.prompt(message=prompt_text)
NextPrompt ==
    /\ prompt' = prompt_text(search_mode')
    /\ buffer' = <<>>
    /\ key' = ""

\* interactive_mode(config) up to the first prompt
InteractiveMode ==
    /\ prompt = ""
    /\ input_history' = <<>>
    /\ history_index' = <<>>
    /\ current_draft' = <<>>
    /\ search_mode' = "title"
    /\ NextPrompt
    /\ UNCHANGED <<registryVars, resolveVars, concurrentVars>>

\* The user edits the text of the buffer
Type(text) ==
    /\ Open
    /\ buffer' = text
    /\ key' = "text"
    /\ UNCHANGED <<input_history, history_index, current_draft, search_mode, prompt>>
    /\ UNCHANGED <<registryVars, resolveVars, concurrentVars>>

\* A key of the history was handled and left s
Navigated(k, s) ==
    /\ Open
    /\ key' = k
    /\ input_history' = s.input_history
    /\ history_index' = s.history_index
    /\ current_draft' = s.current_draft
    /\ buffer' = s.buffer
    /\ UNCHANGED <<search_mode, prompt>>
    /\ UNCHANGED <<registryVars, resolveVars, concurrentVars>>

\* @kb.add('up')
Up == Navigated("up", Previous(input_history, history_index, current_draft, buffer))

\* @kb.add('down')
Down == Navigated("down", Following(input_history, history_index, current_draft, buffer))

\* @kb.add('c-p')
CtrlP == Navigated("c-p", Previous(input_history, history_index, current_draft, buffer))

\* @kb.add('c-n')
CtrlN == Navigated("c-n", Following(input_history, history_index, current_draft, buffer))

\* @kb.add('s-tab'), and the loop's "continue" on RESULT_MODE_SWITCH
ShiftTab ==
    /\ Open
    /\ search_mode' = IF search_mode = "title" THEN "doi" ELSE "title"
    /\ NextPrompt
    /\ UNCHANGED <<input_history, history_index, current_draft>>
    /\ UNCHANGED <<registryVars, resolveVars, concurrentVars>>

\* @kb.add('enter'), and the loop from normalize_text to the next prompt
Enter ==
    /\ Open
    /\ current_draft' = <<>>
    /\ history_index' = <<>>
    /\ input_history' = IF normalize_text(buffer) = <<>> THEN input_history
                         ELSE Submitted(input_history, normalize_text(buffer))
    /\ Len(input_history') <= MaxHistory
    /\ UNCHANGED search_mode
    /\ NextPrompt
    /\ UNCHANGED <<registryVars, resolveVars, concurrentVars>>

\* What the clipboard and the OCR give to c-v
OcrOutcomes ==
    {[image |-> FALSE, text |-> <<>>], [image |-> TRUE, text |-> <<>>]}
        \cup {[image |-> TRUE, text |-> <<text>>] : text \in OcrTexts}

\* @kb.add('c-v'), and the loop's branch of RESULT_OCR_REQUESTED; a text of
\* <<>> stands for an image that is gone or an OCR that failed
CtrlV(outcome) ==
    /\ Open
    /\ UNCHANGED <<input_history, history_index, current_draft, search_mode>>
    /\ IF ~outcome.image
       THEN key' = "c-v" /\ UNCHANGED <<buffer, prompt>>
       ELSE IF prompt = "Edit: " \/ outcome.text = <<>>
            THEN NextPrompt
            ELSE prompt' = "Edit: " /\ buffer' = outcome.text[1] /\ key' = ""
    /\ UNCHANGED <<registryVars, resolveVars, concurrentVars>>

\* KeyboardInterrupt or EOFError in session.prompt
CtrlC ==
    /\ Open
    /\ UNCHANGED <<input_history, history_index, current_draft, search_mode>>
    /\ IF prompt = "Edit: "
       THEN NextPrompt
       ELSE prompt' = "exited" /\ key' = "c-c" /\ UNCHANGED buffer
    /\ UNCHANGED <<registryVars, resolveVars, concurrentVars>>

InteractiveNext ==
    \/ InteractiveMode
    \/ \E text \in Texts : Type(text)
    \/ Up
    \/ Down
    \/ CtrlP
    \/ CtrlN
    \/ ShiftTab
    \/ Enter
    \/ \E outcome \in OcrOutcomes : CtrlV(outcome)
    \/ CtrlC

SpecInteractive == SpecInit /\ [][InteractiveNext]_vars

(***************************************************************************)
(* Properties of the registry and the loader (checked under SpecRegistry)  *)
(***************************************************************************)
\* The modules whose register_hooks names a hook that does not exist
RegistersUnknownHook(m) ==
    \E i \in 1..Len(register_hooks(m)) : register_hooks(m)[i].hook \notin HookNames

\* The place of the first occurrence of x in the sequence q
FirstIndex(q, x) == SetMin({i \in 1..Len(q) : q[i] = x})

\* The number of the instance that the last call of
\* instantiate_all_modules constructed k-th
BatchInstance(k) == next_instance - Len(last_call.constructed) + k - 1

\* Where, by its instance, a callback stands in that call's order of
\* construction (0: it is of no instance of that call)
BatchPlace(cb) ==
    IF \E k \in 1..Len(last_call.constructed) : BatchInstance(k) = cb.instance
    THEN cb.instance - BatchInstance(1) + 1
    ELSE 0

\* C6: a direct call register_hook(name, callback) with a known name puts
\* the callback at the end of that hook's list: the list is one longer, its
\* last element is the callback, the callbacks registered earlier keep their
\* places, the list of every other hook is the same and no hook name is
\* added or removed.
C6_RegisterAppends ==
    [][(direct' = direct + 1 /\ last_call'.raised = <<>>) =>
        LET n == last_call'.hook
        IN  /\ n \in HookNames
            /\ DOMAIN hooks' = DOMAIN hooks
            /\ Len(hooks'[n]) = Len(hooks[n]) + 1
            /\ hooks'[n][Len(hooks'[n])] = last_call'.callback
            /\ \A i \in 1..Len(hooks[n]) : hooks'[n][i] = hooks[n][i]
            /\ \A o \in DOMAIN hooks \ {n} : hooks'[o] = hooks[o]]_vars

\* register_hook has appended to a list that held callbacks of two modules,
\* while another hook has callbacks too
C6_Witness ==
    /\ last_call.op = "register_hook"
    /\ last_call.raised = <<>>
    /\ Len(hooks[last_call.hook]) >= 3
    /\ hooks["resolve"] # <<>>

\* C7: a direct call of register_hook with a name that is no hook raises
\* the unknown-hook error and leaves the registry as it was: the same hook
\* names, the same list for each.
C7_UnknownHookRejected ==
    [][(direct' = direct + 1 /\ last_call'.hook \notin HookNames) =>
        /\ last_call'.raised = <<UnknownHookError(last_call'.hook)>>
        /\ hooks' = hooks]_vars

\* register_hook has raised on a registry that holds callbacks
C7_Witness ==
    /\ last_call.op = "register_hook"
    /\ last_call.hook = UnknownHookName
    /\ last_call.raised # <<>>
    /\ hooks["identify"] # <<>>

\* C8 as claimed: when a discovered module registers under an unknown hook
\* name, instantiate_all_modules raises.
C8_UnknownHookFatal ==
    (/\ last_call.op = "instantiate_all_modules"
     /\ \E i \in 1..Len(discovered_modules) :
            RegistersUnknownHook(discovered_modules[i]))
        => last_call.raised # <<>>

\* C8, amended: instantiate_all_modules never raises.  The unknown-hook
\* error of a module's constructor is caught there and printed as a warning;
\* that module is neither in loaded_modules nor among the returned
\* instances, and every other discovered module is in both.
C8_UnknownHookCaught ==
    last_call.op = "instantiate_all_modules" =>
        /\ last_call.raised = <<>>
        /\ loaded_modules = last_call.instances
        /\ \A i \in 1..Len(discovered_modules) :
              LET m == discovered_modules[i]
                  isLoaded == \E j \in 1..Len(loaded_modules) :
                                  loaded_modules[j].module = m
                  warned == \E j \in 1..Len(last_call.warnings) :
                                last_call.warnings[j] =
                                    <<m, UnknownHookError(UnknownHookName)>>
              IN  IF RegistersUnknownHook(m)
                  THEN warned /\ ~isLoaded
                  ELSE isLoaded /\ ~warned

\* instantiate_all_modules has met the failing module first and has loaded
\* the module after it
C8_Witness ==
    /\ last_call.op = "instantiate_all_modules"
    /\ Len(discovered_modules) >= 2
    /\ RegistersUnknownHook(discovered_modules[1])
    /\ last_call.warnings # <<>>
    /\ loaded_modules # <<>>

\* C9: instantiate_all_modules calls the constructor of every discovered
\* module once, in the order of the module list, and each constructor runs
\* register_hooks once: in every hook's list the callbacks of the instances
\* of that call stand in the order of the module list (those of one module
\* in the order its register_hooks names them), no callback stands there
\* twice, and every registration of a loaded instance stands there once.
C9_RegistrationOrder ==
    last_call.op = "instantiate_all_modules" =>
        /\ last_call.constructed = discovered_modules
        /\ \A i, j \in 1..Len(discovered_modules) :
              i < j => FirstIndex(module_names, discovered_modules[i])
                           < FirstIndex(module_names, discovered_modules[j])
        /\ \A h \in HookNames :
              /\ \A i, j \in 1..Len(hooks[h]) :
                    (i < j /\ BatchPlace(hooks[h][i]) > 0
                           /\ BatchPlace(hooks[h][j]) > 0)
                        => /\ BatchPlace(hooks[h][i]) <= BatchPlace(hooks[h][j])
                           /\ hooks[h][i] # hooks[h][j]
                           /\ BatchPlace(hooks[h][i]) = BatchPlace(hooks[h][j])
                                => LET regs == register_hooks(hooks[h][i].module)
                                   IN  \E a, b \in 1..Len(regs) :
                                          /\ a < b
                                          /\ regs[a] = Reg(h, hooks[h][i].method)
                                          /\ regs[b] = Reg(h, hooks[h][j].method)
              /\ \A k \in 1..Len(loaded_modules) :
                    LET inst == loaded_modules[k]
                        regs == register_hooks(inst.module)
                    IN  \A a \in 1..Len(regs) :
                           regs[a].hook = h =>
                              Cardinality({i \in 1..Len(hooks[h]) :
                                  hooks[h][i] = Callback(inst.module,
                                      inst.instance, regs[a].method)}) = 1

\* Two modules have been instantiated by one call, after the registry had
\* been filled by an earlier call
C9_Witness ==
    /\ last_call.op = "instantiate_all_modules"
    /\ Len(last_call.instances) >= 2
    /\ Len(hooks["identify"]) >= 3
    /\ Len(hooks["before_postprocess_bibtex"]) >= 2

\* C11: a call of discover_all_modules only collects the module classes:
\* it constructs no instance, so the hook registry, loaded_modules and the
\* count of the instances constructed are what they were before the call,
\* and what it collects are the names, among those asked for, of the modules
\* that exist.  A callback of a module enters the registry only in a call
\* of instantiate_all_modules.
C11_DiscoveryCollectsOnly ==
    [][/\ last_call'.op = "discover_all_modules"
          => /\ hooks' = hooks
             /\ loaded_modules' = loaded_modules
             /\ next_instance' = next_instance
             /\ \A i \in 1..Len(discovered_modules') :
                   /\ discover_module(discovered_modules'[i])
                   /\ \E j \in 1..Len(module_names') :
                         module_names'[j] = discovered_modules'[i]
       /\ \A h \in HookNames :
             (\E i \in 1..Len(hooks'[h]) :
                 /\ hooks'[h][i].module # UserCallback.module
                 /\ \A j \in 1..Len(hooks[h]) : hooks[h][j] # hooks'[h][i])
                => last_call'.op = "instantiate_all_modules"]_vars

\* Modules have been discovered while the registry held callbacks of
\* instances constructed earlier, and none of the modules just discovered
\* is loaded
C11_Witness ==
    /\ last_call.op = "discover_all_modules"
    /\ Len(discovered_modules) >= 2
    /\ loaded_modules = <<>>
    /\ \E h \in HookNames : \E i \in 1..Len(hooks[h]) :
          hooks[h][i].module # UserCallback.module

\* C40: every callback of a module in the registry is one of an instance
\* that is in loaded_modules, and it stands in its hook's list once
C40_OnlyLoadedCallbacks ==
    \A h \in HookNames :
        \A i \in 1..Len(hooks[h]) :
            hooks[h][i] # UserCallback =>
                /\ \E j \in 1..Len(loaded_modules) :
                       /\ loaded_modules[j].module = hooks[h][i].module
                       /\ loaded_modules[j].instance = hooks[h][i].instance
                /\ \A k \in 1..Len(hooks[h]) : hooks[h][k] = hooks[h][i] => k = i

(***************************************************************************)
(* Properties of resolve_identifier and of the callbacks (checked under    *)
(* Spec)                                                                   *)
(***************************************************************************)
\* The elements of a sequence
Range(q) == {q[i] : i \in 1..Len(q)}

IsConsult(c) == c.op \in Range(Classifiers)

IsResolverCall(c) == c.op \in Range(Resolvers)

IsRequest(c) == c.op = "request"

\* A call of resolve_identifier has returned or raised
Resolved == pc = "idle" /\ last_call.op = "resolve_identifier" /\ result # NoResult

\* The string returned for the exception e
ErrorText(e) ==
    <<"\n", " ", " ", "There was an error:", "\n", " ", " ">> \o Str(e) \o <<"\n">>

\* C1: a call of resolve_identifier with raise_on_error = False never
\* raises, whatever the identifier and whichever step of the pipeline raised
\* an exception: it returns a string, and when an exception was raised that
\* string is a newline, two spaces, the marker "There was an error:", a
\* newline, two spaces, the message of the exception and a newline.
C1_ErrorsReturned ==
    (Resolved /\ ~raise_on_error) =>
        /\ result.status = "returned"
        /\ result.raised = <<>>
        /\ error # <<>> => result.text = ErrorText(error[1])

\* An exception of the post-processing (a KeyError) came back as a string
C1_Witness ==
    /\ Resolved /\ ~raise_on_error
    /\ error # <<>> /\ error[1].type = "KeyError"
    /\ result.status = "returned"

\* No classifier accepts the identifier
NoneMatches(id) == \A i \in 1..Len(Classifiers) : ~Classify(Classifiers[i], id)

\* C2: when the preprocessed identifier satisfies none of the classifiers
\* (DOI, arXiv, ADS bibcode, ISBN), the resolution fails with the error
\* "Unrecognized identifier: <identifier>", which is raised or returned in
\* the error string, and it calls no resolver and makes no request.
C2_UnrecognizedFails ==
    (calls # <<>> /\ NoneMatches(identifier)) =>
        /\ pc \in {"except", "idle"}
        /\ error = <<RuntimeError(<<"Unrecognized identifier: ">> \o identifier)>>
        /\ \A i \in 1..Len(calls) : ~IsResolverCall(calls[i]) /\ ~IsRequest(calls[i])
        /\ pc = "idle" =>
              \/ result.status = "raised" /\ result.raised = error
              \/ /\ result.status = "returned"
                 /\ Contains(result.text,
                             <<"Unrecognized identifier: ">> \o identifier)

C2_Witness ==
    /\ Resolved /\ calls # <<>> /\ NoneMatches(identifier)
    /\ result.status = "returned"

\* Where the classification ends in the calls of a resolution: at the first
\* classifier that said yes, or at the last classifier
ClassifiedAt ==
    IF \E i \in 1..Len(calls) : IsConsult(calls[i]) /\ calls[i].ret = "yes"
    THEN SetMin({i \in 1..Len(calls) : IsConsult(calls[i]) /\ calls[i].ret = "yes"})
    ELSE Len(Classifiers)

\* The classifiers are consulted in the order in which the modules
\* registered them, up to the first that matches, whose kind is the kind of
\* the resolution
FirstMatchInOrder ==
    /\ ClassifiedAt <= Len(calls)
    /\ \A i \in 1..ClassifiedAt :
          /\ calls[i].op = Classifiers[i]
          /\ calls[i].arg = calls[1].arg
          /\ hooks["identify"][i].module = Kinds[i]
          /\ i < ClassifiedAt => calls[i].ret = "no"
    /\ kind = IF calls[ClassifiedAt].ret = "yes" THEN Kinds[ClassifiedAt] ELSE ""

\* C3 as the specification states it: classification consults the
\* classifiers in registration order, the kind is that of the first that
\* matches, no classifier is consulted after the first match and none is
\* consulted twice in one resolution.
C3_NoClassifierTwice ==
    calls # <<>> =>
        /\ FirstMatchInOrder
        /\ \A j \in 1..Len(calls) : j > ClassifiedAt => ~IsConsult(calls[j])
        /\ \A i, j \in 1..Len(calls) :
              (IsConsult(calls[i]) /\ IsConsult(calls[j]) /\ i # j)
                  => calls[i].op # calls[j].op

\* C3, amended: classification consults the classifiers in registration
\* order (DOI, arXiv, ADS bibcode, ISBN), the kind is that of the first that
\* matches, and within the classification no classifier is consulted after
\* the first match or twice; after it only the arXiv classifier is consulted
\* again (by the upgrade check and by fix_arxiv_entrytype).
C3_FirstMatchThenArxivOnly ==
    calls # <<>> =>
        /\ FirstMatchInOrder
        /\ \A j \in 1..Len(calls) :
              (j > ClassifiedAt /\ IsConsult(calls[j])) => calls[j].op = "is_arxiv_id"

\* A resolution of an arXiv identifier that asked is_arxiv_id three times:
\* in the chain, for the upgrade and in fix_arxiv_entrytype
C3_Witness ==
    /\ Resolved /\ kind = "arxiv"
    /\ Cardinality({i \in 1..Len(calls) : calls[i].op = "is_arxiv_id"}) = 3

\* The place of a resolver in the order of the kinds
ResolverPlace(c) == CHOOSE i \in 1..Len(Resolvers) : Resolvers[i] = c.op

\* C4: the first resolver called in a resolution is that of its kind; once
\* a resolver has returned a record, no resolver that stands after it in
\* the order is called in that resolution; and a resolve callback called
\* with a kind that is not its module's returns None, raises nothing and
\* makes no request.
C4_ResolveShortCircuit ==
    /\ \A i \in 1..Len(calls) : IsResolverCall(calls[i]) =>
          /\ (\A h \in 1..(i - 1) : ~IsResolverCall(calls[h]))
                 => Kinds[ResolverPlace(calls[i])] = kind
          /\ calls[i].ret = "record" =>
                 \A j \in (i + 1)..Len(calls) :
                     IsResolverCall(calls[j])
                         => ResolverPlace(calls[j]) < ResolverPlace(calls[i])
    /\ (/\ last_call.op = "callback"
        /\ last_call.hook = "resolve"
        /\ last_call.args.identifier_type # last_call.callback.module) =>
          /\ last_call.returned = <<>>
          /\ last_call.raised = <<>>
          /\ last_call.calls = <<>>

\* A resolve callback was called with the kind of another module
C4_Witness ==
    /\ last_call.op = "callback"
    /\ last_call.hook = "resolve"
    /\ last_call.callback.module = "doi"
    /\ last_call.args.identifier_type = "arxiv"
    /\ last_call.returned = <<>>

\* Where the module of a callback registers it in its register_hooks
RegistrationPlace(cb) ==
    CHOOSE i \in 1..Len(register_hooks(cb.module)) :
        register_hooks(cb.module)[i].method = cb.method

RegisteredBefore(a, b) ==
    \/ a.instance < b.instance
    \/ a.instance = b.instance /\ RegistrationPlace(a) < RegistrationPlace(b)

C10_RegistryUnchanged == [][hooks' = hooks]_vars

\* A resolution that failed and one may compare the registry after it
C10_Witness ==
    /\ Resolved /\ error # <<>>
    /\ hooks["resolve"] # <<>>
    /\ hooks["before_postprocess_bibtex"] # <<>>

\* The resolver calls among the calls q, by their places in q
ResolverCallsIn(q) == {i \in 1..Len(q) : IsResolverCall(q[i])}

\* The requests to Crossref among the calls q
CrossrefRequestsIn(q) ==
    {i \in 1..Len(q) : IsRequest(q[i]) /\ q[i].ret = "api.crossref.org"}

\* C12: one call of resolve_identifier makes at most two resolver calls.
\* A resolver call after the first is made only when update_arxiv_if_doi is
\* on, the identifier was classified as arXiv and the record resolved so far
\* has a doi field; it is the second resolver call, a call of resolve_doi
\* with the value of that field, and the record it returns is not upgraded
\* again.  In an invocation of a postprocess hook each run of
\* ArxivModule.update_if_doi makes at most one request to Crossref, and
\* only for the kind arxiv and an entry with a doi field.
C12_UpgradeAtMostOnce ==
    [][/\ Cardinality(ResolverCallsIn(calls')) <= 2
       /\ (/\ ResolverCallsIn(calls) # {}
           /\ Cardinality(ResolverCallsIn(calls')) > Cardinality(ResolverCallsIn(calls)))
          => /\ config.update_arxiv_if_doi
             /\ kind = "arxiv"
             /\ "doi" \in DOMAIN bibtex_dict
             /\ Cardinality(ResolverCallsIn(calls)) = 1
             /\ Cardinality(ResolverCallsIn(calls')) = 2
             /\ \E i \in ResolverCallsIn(calls') \ ResolverCallsIn(calls) :
                   /\ calls'[i].op = "resolve_doi"
                   /\ calls'[i].arg = bibtex_dict["doi"]
       /\ last_call'.op = "invoke"
          => /\ Cardinality(CrossrefRequestsIn(last_call'.calls))
                    <= Cardinality({k \in 1..Len(last_call'.trace) :
                           last_call'.trace[k].callback.method = "update_if_doi"})
             /\ CrossrefRequestsIn(last_call'.calls) # {}
                    => /\ last_call'.args.identifier_type = "arxiv"
                       /\ \E k \in 1..Len(last_call'.trace) :
                             /\ last_call'.trace[k].callback.method = "update_if_doi"
                             /\ "doi" \in DOMAIN last_call'.trace[k].given]_vars

\* A resolution of an arXiv identifier has returned after two resolver
\* calls, the second one for the DOI of the preprint's record, and the
\* record returned for the DOI has a doi field itself
C12_Witness ==
    /\ Resolved
    /\ result.status = "returned"
    /\ kind = "arxiv"
    /\ Cardinality(ResolverCallsIn(calls)) = 2
    /\ "doi" \in DOMAIN bibtex_dict

\* The runs of ArxivModule.update_if_doi in the trace of an invocation
UpdateRunsIn(trace) ==
    {k \in 1..Len(trace) : trace[k].callback.method = "update_if_doi"}

\* C13: when the DOI lookup of the upgrade fails, the failure is
\* propagated and the preprint's record is not returned in its place.  In
\* resolve_identifier: after a second resolver call that raised, the call is
\* in its except clause or has ended with that failure.  In a postprocess
\* hook: a run of ArxivModule.update_if_doi that asked Crossref has raised,
\* or has returned another record than the preprint's it was given.
C13_UpgradeFailurePropagates ==
    /\ (/\ last_call.op = "resolve_identifier"
        /\ \E i, j \in ResolverCallsIn(calls) : i < j /\ calls[j].ret = "raised")
          => \/ pc = "except" /\ error # <<>>
             \/ /\ pc = "idle"
                /\ IF raise_on_error THEN result.status = "raised"
                   ELSE /\ result.status = "returned"
                        /\ result.text = ErrorText(error[1])
    /\ (/\ last_call.op = "invoke"
        /\ Cardinality(UpdateRunsIn(last_call.trace)) = 1
        /\ CrossrefRequestsIn(last_call.calls) # {})
          => \/ last_call.raised # <<>>
             \/ \A k \in UpdateRunsIn(last_call.trace) :
                   last_call.trace[k].returned # last_call.trace[k].given

\* C14: a resolution of an identifier classified as arXiv that returns a
\* record, with fix_arxiv_entrytype on, returns a record whose ENTRYTYPE is
\* "article", also when the upgrade replaced the preprint's record by the
\* record of its DOI.
C14_ArxivIsArticle ==
    (/\ Resolved
     /\ result.status = "returned"
     /\ error = <<>>
     /\ kind = "arxiv"
     /\ config.fix_arxiv_entrytype)
        => bibtex_dict["ENTRYTYPE"] = "article"

\* C15: the kind found by the classification is the kind at every later
\* step: when postprocess_bibtex is about to run, the identifier it is given
\* is an arXiv identifier (which is how fix_arxiv_entrytype learns the kind)
\* exactly when the identifier was classified as arXiv, whether or not the
\* upgrade took place.
C15_KindUnchanged ==
    pc = "postprocess" => (is_arxiv_id(identifier) <=> kind = "arxiv")

StepOrder ==
    <<"preprocess", "classify", "resolve", "upgrade", "postprocess", "serialize">>

\* C17: a call of resolve_identifier goes through its steps in one order
\* (preprocess, classify, resolve, upgrade, post-processing, serialize),
\* each step once.  A step that succeeds is followed by the next one, and the
\* last by the return of the entry; a step that fails is followed by the
\* except clause alone, which ends the call with that failure and runs no
\* resolver, transform or writer.  The call ends either with an entry or
\* with a failure, never both.
C17_LinearPath ==
    [][/\ \/ pc = "idle" /\ pc' \in {"idle", "preprocess"}
          \/ \E i \in 1..Len(StepOrder) :
                /\ pc = StepOrder[i]
                /\ \/ pc' = "except" /\ error' # <<>>
                   \/ /\ error' = <<>>
                      /\ pc' = IF i < Len(StepOrder) THEN StepOrder[i + 1] ELSE "idle"
          \/ pc = "except" /\ pc' = "idle"
       /\ pc = "except"
            => /\ calls' = calls
               /\ bibtex_dict' = bibtex_dict
               /\ error' = error
               /\ IF raise_on_error
                  THEN result' = [status |-> "raised", text |-> <<>>, raised |-> error]
                  ELSE /\ result'.status = "returned"
                       /\ result'.text = ErrorText(error[1])
       /\ (pc = "serialize" /\ pc' = "idle")
            => /\ result'.status = "returned"
               /\ result'.raised = <<>>
               /\ \E st \in {dict_to_bibtex_string(bibtex_dict)} :
                     result'.text = Strip(st.d)
       /\ (pc \notin {"serialize", "except"}) => result' = NoResult]_vars

\* The upgrade failed after the resolver of arXiv had returned a record:
\* the call has ended with the failure, and the record is still the
\* preprint's, which no transform has touched
C17_Witness ==
    /\ Resolved
    /\ error # <<>>
    /\ kind = "arxiv"
    /\ \E i, j \in ResolverCallsIn(calls) : i < j /\ calls[j].ret = "raised"
    /\ bibtex_dict \in Entries
    /\ result.text = ErrorText(error[1])

\* The record as it is when postprocess_bibtex comes to the citekey: the
\* transforms before it have been applied to the record d
BeforeCitekey(d, id, cfg) ==
    Then(Then(Then(
        Ok(fix_broken_pagenumbers(fix_broken_ampersand(d))),
        LAMBDA e : IF cfg.convert_latex_chars
                   THEN Ok(convert_latex_chars(e)) ELSE Ok(e)),
        LAMBDA e : IF cfg.fix_arxiv_entrytype
                   THEN fix_arxiv_entrytype(e, id) ELSE Ok(e)),
        LAMBDA e : IF cfg.abbreviate_journal_names
                   THEN Ok(abbreviate_journal_name(e)) ELSE Ok(e)).d

\* The authors as truncation and then formatting leave them
TruncatedThenFormatted(d, cfg) ==
    IF cfg.format_author_names
    THEN format_author_names(truncate_author_list(d, cfg))["author"]
    ELSE truncate_author_list(d, cfg)["author"]

\* C18: postprocess_bibtex generates the citekey before it truncates the
\* list of authors, and truncates before it formats the names: whatever the
\* limit of authors, the citekey of the record it returns is the one
\* generate_citekey makes of the record with all its authors, their names
\* unformatted, and the authors it returns are the truncated list,
\* formatted after the truncation.
C18_CitekeyBeforeTruncation ==
    [][(pc = "postprocess" /\ pc' = "serialize")
         => /\ (config.generate_citekey /\ "ID" \in DOMAIN bibtex_dict')
                 => bibtex_dict'["ID"]
                      = generate_citekey(BeforeCitekey(bibtex_dict, identifier, config)).d["ID"]
            /\ "author" \in DOMAIN bibtex_dict'
                 => bibtex_dict'["author"]
                      = TruncatedThenFormatted(BeforeCitekey(bibtex_dict, identifier, config), config)]_vars

\* A record of three authors has been post-processed with a limit of one
\* author: the author kept is formatted, "others" follows, and the citekey
\* is the one of the unformatted name
C18_Witness ==
    /\ pc = "serialize"
    /\ config.generate_citekey /\ config.format_author_names
    /\ config.limit_authors = 1
    /\ "author" \in DOMAIN bibtex_dict /\ "ID" \in DOMAIN bibtex_dict
    /\ bibtex_dict["author"] = <<FormatName(Entry_published["author"][1]), <<"o", "t", "h", "e", "r", "s">>>>
    /\ bibtex_dict["ID"][1] # "{"

\* Every toggle of a transform is off and there is no list of fields to
\* remove
AllTogglesOff(cfg) ==
    /\ ~cfg.convert_latex_chars /\ ~cfg.fix_arxiv_entrytype
    /\ ~cfg.abbreviate_journal_names /\ ~cfg.generate_citekey
    /\ ~cfg.format_author_names /\ ~cfg.convert_month_to_number
    /\ ~cfg.resolve_adsurl /\ ~cfg.remove_url_if_doi
    /\ ~cfg.crossmatch_with_dblp
    /\ DOMAIN cfg.remove_fields = {}

\* The field f is in both records and has the same value in both
SameField(d, e, f) == (f \in DOMAIN d /\ f \in DOMAIN e) => d[f] = e[f]

\* C19 as stated: every transform has a toggle, so with every toggle off
\* postprocess_bibtex returns the record it was given, no field changed.
C19_AllOffIsIdentity ==
    [][(pc = "postprocess" /\ AllTogglesOff(config))
          => /\ pc' = "serialize"
             /\ bibtex_dict' = bibtex_dict]_vars

\* C19, amended: the repair of the ampersands, the repair of the page
\* numbers and the truncation of the authors have no toggle and always run;
\* each other transform has one, and while it is off the field it writes
\* keeps its value.  With every toggle off postprocess_bibtex returns the
\* record as those three transforms leave it, and calls no service.
C19_AllOffButThree ==
    [][(pc = "postprocess" /\ pc' = "serialize")
          => /\ AllTogglesOff(config)
                  => /\ bibtex_dict' = truncate_author_list(
                            fix_broken_pagenumbers(fix_broken_ampersand(bibtex_dict)),
                            config)
                     /\ calls' = calls
             /\ ~config.fix_arxiv_entrytype
                  => SameField(bibtex_dict, bibtex_dict', "ENTRYTYPE")
             /\ ~config.generate_citekey
                  => SameField(bibtex_dict, bibtex_dict', "ID")
             /\ ~config.convert_month_to_number
                  => SameField(bibtex_dict, bibtex_dict', "month")
             /\ (~config.abbreviate_journal_names /\ ~config.convert_latex_chars)
                  => SameField(fix_broken_ampersand(bibtex_dict), bibtex_dict', "journal")
             /\ (~config.format_author_names /\ ~config.convert_latex_chars)
                  => SameField(truncate_author_list(bibtex_dict, config),
                               bibtex_dict', "author")
             /\ (~config.resolve_adsurl /\ "adsurl" \in DOMAIN bibtex_dict')
                  => /\ "adsurl" \in DOMAIN bibtex_dict
                     /\ bibtex_dict'["adsurl"] = bibtex_dict["adsurl"]
             /\ (~config.crossmatch_with_dblp /\ "addendum" \in DOMAIN bibtex_dict')
                  => "addendum" \in DOMAIN bibtex_dict
             /\ (~config.remove_url_if_doi /\ "url" \in DOMAIN bibtex_dict
                     /\ \A k \in DOMAIN config.remove_fields :
                           "url" \notin config.remove_fields[k])
                  => "url" \in DOMAIN bibtex_dict'
             /\ (DOMAIN config.remove_fields = {} /\ ~config.remove_url_if_doi)
                  => DOMAIN bibtex_dict \subseteq DOMAIN bibtex_dict']_vars

\* With every toggle off the record of the published paper has been
\* post-processed: its ampersand and its page numbers are repaired, the
\* rest is as it was
C19_Witness ==
    /\ pc = "serialize"
    /\ AllTogglesOff(config)
    /\ bibtex_dict = fix_broken_pagenumbers(fix_broken_ampersand(Entry_published))
    /\ bibtex_dict # Entry_published
    /\ bibtex_dict["month"] = Entry_published["month"]

\* C20: postprocess_bibtex is idempotent: applied, with the same identifier
\* and configuration, to the record it has just returned, it raises nothing
\* and returns that record again.  In the second application ADS finds no
\* bibcode, and dblp finds the venue again exactly when it found it in the
\* first.
C20_PostprocessIdempotent ==
    pc = "serialize" =>
        \E again \in {postprocess_bibtex(bibtex_dict, identifier, config, "none",
                          IF "addendum" \in DOMAIN bibtex_dict
                          THEN "venue" ELSE "none")} :
            /\ again.raised = <<>>
            /\ again.d = bibtex_dict

\* C26: given "doi:10.48550/arXiv.1312.6114", resolve_identifier has the
\* bare id 1312.6114 after preprocessing and classifies it as arXiv
C26_ArxivBehindDoiPrefix ==
    (argument = <<Id_arxiv_doi>> /\ pc = "resolve") =>
        (identifier = Id_arxiv /\ kind = "arxiv")

\* What the ADS lookup raises when it fails
EnrichmentFailures ==
    {Exception("RuntimeError", <<"No ADS token found">>),
     Exception("ConnectionError", <<"ADS request failed">>)}

\* C27: the post-processing of resolve_identifier never ends with the
\* exception of a failed enrichment
C27_EnrichmentNeverFails ==
    [][(pc = "postprocess" /\ pc' = "except") => error'[1] \notin EnrichmentFailures]_vars

(***************************************************************************)
(* Properties of the functions of process.py (checked under SpecProcess)   *)
(***************************************************************************)
\* The segments of a citekey, joined by the delimiter
RECURSIVE Segments(_)
Segments(parts) ==
    IF parts = <<>> THEN <<>>
    ELSE IF Len(parts) = 1 THEN parts[1]
    ELSE parts[1] \o <<"_">> \o Segments(Tail(parts))

\* The segments the record d has a source for, in the order name, year,
\* word of the title
CitekeySegments(d) ==
    (IF "author" \in DOMAIN d
     THEN <<SimplifiedLastName(splitname(d["author"][1]))>> ELSE <<>>)
    \o (IF "year" \in DOMAIN d THEN <<d["year"]>> ELSE <<>>)
    \o (IF "title" \in DOMAIN d THEN <<first_valid_word(d["title"])>> ELSE <<>>)

\* C21: generate_citekey does not fail, and the citekey it writes is made
\* of the segments whose source the record has, in the order name, year,
\* word of the title: a record without author gets a citekey without name,
\* one without year a citekey without "_<year>", one without title a
\* citekey without "_<word>".
C21_CitekeyOmitsMissing ==
    last_call.op = "generate_citekey" =>
        /\ error = <<>>
        /\ bibtex_dict = With(last_call.args.entry, "ID",
                              Segments(CitekeySegments(last_call.args.entry)))

\* The names of an author field that stand before its last element
NamesBeforeLast(authors) ==
    SelectSeq(SubSeq(authors, 1, Len(authors) - 1), LAMBDA name : name # <<>>)

\* C22: truncate_author_list returns a record whose author list is at most
\* limit_authors names long and that differs from the one given only when
\* the list had more than limit_authors names: then the first limit_authors
\* names are kept, "others" is appended, and no other field changes
C22_TruncatesToLimit ==
    (last_call.op = "truncate_author_list" /\ "author" \in DOMAIN last_call.args.entry) =>
        IF Len(last_call.args.entry["author"]) <= config.limit_authors
        THEN bibtex_dict = last_call.args.entry
        ELSE /\ bibtex_dict["author"][Len(bibtex_dict["author"])] = <<"o", "t", "h", "e", "r", "s">>
             /\ NamesBeforeLast(bibtex_dict["author"])
                    = SubSeq(last_call.args.entry["author"], 1, config.limit_authors)
             /\ Without(bibtex_dict, {"author"}) = Without(last_call.args.entry, {"author"})

\* Three authors were cut to two and "others"
C22_Witness ==
    /\ last_call.op = "truncate_author_list"
    /\ last_call.args.entry = Entry_published
    /\ config.limit_authors = 2
    /\ Len(bibtex_dict["author"]) = 3

\* C23: convert_month_to_number writes the number of a recognized month
\* name and returns a record with any other month value as it was given,
\* letter case included
C23_OtherMonthsUnchanged ==
    (last_call.op = "convert_month_to_number" /\ "month" \in DOMAIN last_call.args.entry) =>
        IF MonthNumber(Lower(last_call.args.entry["month"])) # Lower(last_call.args.entry["month"])
        THEN bibtex_dict = With(last_call.args.entry, "month",
                                MonthNumber(Lower(last_call.args.entry["month"])))
        ELSE bibtex_dict = last_call.args.entry

\* C24: preprocess_identifier gives 10.1234/x for 10.1234/x behind the
\* prefix "doi:" written in any letter case
C24_PrefixAnyCase ==
    (/\ last_call.op = "preprocess_identifier"
     /\ Len(argument[1]) > 4
     /\ Lower(SubSeq(argument[1], 1, 4)) = S_doi_colon
     /\ DropFirst(argument[1], 4) = Id_doi)
        => identifier = Id_doi

\* None of the four patterns of preprocess_arxiv_identifier matches s
NoPatternMatches(s) ==
    /\ GroupAfter(Lower(s), S_arxiv_org_abs, {}, FALSE) = <<>>
    /\ GroupAfter(Lower(s), S_doi_org_arxiv, {".", ":"}, FALSE) = <<>>
    /\ GroupAfter(Lower(s), S_doi_arxiv, {".", ":"}, TRUE) = <<>>
    /\ GroupAfter(Lower(s), S_arxiv, {".", ":"}, TRUE) = <<>>

\* C25: what preprocess_identifier returns is a contiguous part of the
\* printable characters of what it was given, in the same letter case, and
\* an identifier that contains "arxiv" and matches none of the four
\* patterns comes back as it was given
C25_KeepsCharacters ==
    last_call.op = "preprocess_identifier" =>
        /\ Contains(Filter(argument[1], Printable), identifier)
        /\ (/\ Contains(Lower(argument[1]), S_arxiv)
            /\ ~StartsWith(argument[1], S_doi_colon)
            /\ ~StartsWith(argument[1], S_DOI_colon)
            /\ NoPatternMatches(argument[1]))
               => identifier = Filter(argument[1], Printable)

\* C36: for a title that is not empty and has no valid word,
\* generate_citekey writes a citekey without segment for the title: the
\* name and the year only
C36_NoSegmentWithoutWord ==
    (/\ last_call.op = "generate_citekey"
     /\ error = <<>>
     /\ "title" \in DOMAIN last_call.args.entry
     /\ last_call.args.entry["title"] # <<>>
     /\ first_valid_word(last_call.args.entry["title"]) = None)
        => bibtex_dict["ID"]
             = Segments(CitekeySegments(Without(last_call.args.entry, {"title"})))

(***************************************************************************)
(* Properties of search.py (checked under SpecSearch)                      *)
(***************************************************************************)
\* The names of the backends that were called, in the order of the calls
Queried == [i \in 1..Len(calls) |-> calls[i].op]

\* C28: a sequential search that returns has called the enabled backends
\* in their configured order up to the first whose list is not empty and
\* no backend after it, and returns that list; it returns the empty list
\* only when every enabled backend was called and returned the empty list
C28_SequentialFirstNonEmpty ==
    (last_call.op = "search_papers" /\ ~config.merge_search_results /\ error = <<>>) =>
        /\ Queried = SubSeq(enabled_sources(config), 1, Len(calls))
        /\ \A i \in 1..(Len(calls) - 1) : last_call.args.answers[calls[i].op] = Ok(<<>>)
        /\ result.results
              = _add_source_to_results(last_call.args.answers[calls[Len(calls)].op].d,
                                       calls[Len(calls)].op)
        /\ result.results = <<>> => Len(calls) = Len(enabled_sources(config))

\* The first backend returned nothing, the second a list, and the third,
\* which has a list too, was not called
C28_Witness ==
    /\ last_call.op = "search_papers"
    /\ ~config.merge_search_results
    /\ config.search_sources = SearchFunctions
    /\ Queried = <<"openalex", "crossref">>
    /\ last_call.args.answers["semanticscholar"] = Ok(<<Result_a, Result_b>>)
    /\ result.status = "returned"
    /\ Len(result.results) = 2

\* C29: search_papers returns whatever the backends do, in the sequential
\* and in the parallel mode: the exception of a backend is not the
\* exception of the search
C29_BackendFailureSkipped ==
    last_call.op = "search_papers" => (result.status = "returned" /\ error = <<>>)

\* The places of results whose DOI is empty or stands at no earlier place
FirstOfDoi(results) ==
    {i \in 1..Len(results) :
        \/ DoiOf(results[i]) = ""
        \/ \A j \in 1..(i - 1) : DoiOf(results[j]) # DoiOf(results[i])}

\* The n-th smallest element of a set of places
NthPlace(places, n) ==
    CHOOSE i \in places : Cardinality({j \in places : j <= i}) = n

\* C30: _deduplicate_by_doi returns, in the order given, the results
\* without DOI and of every DOI the first result that has it, and no
\* other result
C30_KeepsFirstOfDoi ==
    last_call.op = "_deduplicate_by_doi" =>
        result.results
          = [n \in 1..Cardinality(FirstOfDoi(last_call.args.results)) |->
                last_call.args.results[NthPlace(FirstOfDoi(last_call.args.results), n)]]

\* The second result of a DOI was dropped, the result without DOI kept
C30_Witness ==
    /\ last_call.op = "_deduplicate_by_doi"
    /\ last_call.args.results = <<Result_a, Result_a_again, Result_empty_doi>>
    /\ result.results = <<Result_a, Result_empty_doi>>

\* The place of a returned result in the list its backend answered
RankAtSource(search_result) ==
    CHOOSE i \in 1..Len(last_call.args.answers[search_result["source"]].d) :
        With(last_call.args.answers[search_result["source"]].d[i], "source",
             search_result["source"]) = search_result

\* C31: in the list a parallel search returns, a result that was the i-th
\* of its backend never stands behind a result that was at a later place
\* of its backend, and the results of one backend stand in the order the
\* backend gave them
C31_RoundRobin ==
    (last_call.op = "search_papers" /\ config.merge_search_results) =>
        \A m, n \in 1..Len(result.results) :
            m < n =>
                /\ RankAtSource(result.results[m]) <= RankAtSource(result.results[n])
                /\ result.results[m]["source"] = result.results[n]["source"]
                      => RankAtSource(result.results[m]) < RankAtSource(result.results[n])

\* Two backends answered two results each, and three of them are returned
C31_Witness ==
    /\ last_call.op = "search_papers"
    /\ config.merge_search_results
    /\ config.search_sources = <<"crossref", "openalex">>
    /\ last_call.args.answers["crossref"] = Ok(<<Result_a, Result_b>>)
    /\ last_call.args.answers["openalex"] = Ok(<<Result_empty_doi, Result_a_again>>)
    /\ Len(result.results) = 3

\* C37: two parallel searches with the same title, configuration, limit
\* and answers of the backends return the same list, whatever the order in
\* which their futures completed
C37_CompletionOrderIrrelevant ==
    [][(/\ last_call.op = "search_papers" /\ last_call'.op = "search_papers"
        /\ config.merge_search_results
        /\ config' = config
        /\ last_call'.args.title = last_call.args.title
        /\ last_call'.args.limit = last_call.args.limit
        /\ last_call'.args.answers = last_call.args.answers)
           => result' = result]_vars

(***************************************************************************)
(* Properties of concurrent resolutions (checked under SpecConcurrent)     *)
(***************************************************************************)
\* The step of a call that stands at l.pc
Step(l, h) ==
    CASE l.pc = "preprocess"  -> StepPreprocess(l, h)
      [] l.pc = "classify"    -> StepClassify(l, h)
      [] l.pc = "resolve"     -> StepResolve(l, h)
      [] l.pc = "upgrade"     -> StepUpgrade(l, h)
      [] l.pc = "postprocess" -> StepPostprocess(l, h)
      [] l.pc = "serialize"   -> StepSerialize(l, h)
      [] l.pc = "except"      -> StepExcept(l, h)

\* What a call returns when its steps are taken with no step of another
\* call between them
RECURSIVE RunFrom(_)
RunFrom(state) ==
    IF state.l.pc = "done" THEN state.l.result
    ELSE RunFrom(Step(state.l, state.h))

ResultAlone(l) ==
    RunFrom([l |-> Started(l.argument, l.config, l.raise_on_error, l.services),
             h |-> <<>>])

HistoryKeys == {"up", "down", "c-p", "c-n"}

\* C33: the draft survives a visit of the history: entering the history
\* stores the text of the buffer as the draft, no step taken inside the
\* history changes the draft, and going down from the last entry leaves
\* the history (history_index is None) with the draft in the buffer
C33_DraftRestored ==
    [][/\ (key' \in {"up", "c-p"} /\ history_index = <<>> /\ history_index' # <<>>)
            => current_draft' = <<buffer>>
       /\ (history_index # <<>> /\ history_index' # <<>>)
            => current_draft' = current_draft
       /\ (key' \in {"down", "c-n"} /\ history_index = <<Len(input_history) - 1>>)
            => (history_index' = <<>> /\ buffer' = current_draft[1])]_vars

\* The user has gone down from the last entry and has the draft back, a
\* text that was never submitted
C33_Witness ==
    /\ key = "down"
    /\ history_index = <<>>
    /\ input_history # <<>>
    /\ buffer = <<"a", "\n">>
    /\ current_draft = <<buffer>>
    /\ \A k \in 1..Len(input_history) : input_history[k] # buffer

\* C34: after a key of the history pressed while an entry is displayed,
\* that entry holds the text the buffer had before the key
C34_EditsPersist ==
    [][(key' \in HistoryKeys /\ history_index # <<>>)
          => input_history'[history_index[1] + 1] = buffer]_vars

\* C35: no two neighbours of the input history are equal
C35_NoEqualNeighbours ==
    \A k \in 1..(Len(input_history) - 1) : input_history[k] # input_history[k + 1]

\* C38: a prompt that has handled no key yet, whose buffer holds its
\* default text and no history entry, is never open with a history_index
\* that is not None
C38_IndexEndsWithPrompt == (Open /\ key = "") => history_index = <<>>

ValidIndex(i, h) == i = <<>> \/ (0 <= i[1] /\ i[1] < Len(h))

\* C39: every step leaves history_index None or an index of the history,
\* a key of the history leaves the number of entries as it was, and on an
\* empty history it changes neither the history nor the index, the draft
\* or the buffer
C39_IndexValid ==
    [][/\ ValidIndex(history_index', input_history')
       /\ key' \in HistoryKeys
            => /\ Len(input_history') = Len(input_history)
               /\ input_history = <<>>
                    => UNCHANGED <<input_history, history_index, current_draft, buffer>>]_vars

\* Down was pressed at the last of two entries, or up at the first
C39_Witness ==
    /\ key \in HistoryKeys
    /\ Len(input_history) = 2
    /\ history_index = <<0>>
    /\ buffer = input_history[1]

====
